---- MODULE Spec2Model ----
(***************************************************************************)
(* Prereq Flow: the prerequisite parser, the graph metadata engine and the *)
(* status propagation engine, with the edit handlers of App.jsx.           *)
(*                                                                         *)
(* An element list is a sequence of records.  A node is                    *)
(*   [id, type, nodeStatus]                                                *)
(* and an edge is                                                          *)
(*   [id, source, target, className, label]                                *)
(* (isNode / isEdge of react-flow-renderer test for the source and target  *)
(* fields).  JavaScript arrays are 0-based, the sequences here are 1-based;*)
(* elemIndexes holds the 1-based position.                                 *)
(***************************************************************************)
EXTENDS Integers, Sequences, FiniteSets, TLC

VARIABLES
  elements,      \* the element list (React state `elements`, or a function's output)
  nodeData,      \* nodeData.current: node id -> metadata
  elemIndexes,   \* elemIndexes.current: element id -> position in elements
  undoStack,     \* undoStack.current: sequence of element lists
  redoStack,     \* redoStack.current
  crashed,       \* TRUE once a handler ended by an uncaught RangeError (stack overflow)
  steps,         \* the number of handler invocations so far
  op,            \* the last operation that ran, with its arguments
  pre,           \* the element list the last operation started from
  callStack,     \* discoverMaxDepths: the frames of the running recursion
  roots,         \* newNodeData: the roots still to be traversed
  dpc,           \* newNodeData: position of the traversal ("idle", "run", "done", "overflow")
  courseData,    \* generateInitialElements: the course records
  ambiguousHandling, \* generateInitialElements: "conservative" or "aggressively"
  parser,        \* generateInitialElements: elementIds, the gates made, the clauses to do
  file,          \* OpenFileDialog: the dropped file while its FileReader is pending
  busy,          \* OpenFileDialog: the busy state
  errorMsg,      \* OpenFileDialog: the error message state
  downloaded,    \* saveFlow: the file of the last download
  filteredElements, \* generateNewLayout: the list handed to generateDagreLayout
  heap           \* the data objects of the nodes: address -> nodeStatus

vars == <<elements, nodeData, elemIndexes, undoStack, redoStack, crashed, steps, op, pre,
          callStack, roots, dpc, courseData, ambiguousHandling, parser,
          file, busy, errorMsg, downloaded, filteredElements, heap>>

appVars == <<undoStack, redoStack, crashed, steps>>
depthVars == <<callStack, roots, dpc>>
parseVars == <<courseData, ambiguousHandling, parser>>
dialogVars == <<file, busy, errorMsg, downloaded>>
layoutVars == <<filteredElements>>
heapVars == <<heap>>

-----------------------------------------------------------------------------
(* Sequence helpers (Array.prototype.map / filter / includes / flat).      *)

Range(s) == { s[i] : i \in 1..Len(s) }

Includes(s, x) == \E i \in 1..Len(s) : s[i] = x

RECURSIVE Flat(_)
Flat(ss) == IF ss = <<>> THEN <<>> ELSE Head(ss) \o Flat(Tail(ss))

-----------------------------------------------------------------------------
(* Status names and codes.                                                 *)

COURSE_STATUSES ==
  <<"completed", "enrolled", "ready", "under-one-away", "one-away", "over-one-away">>

Statuses == Range(COURSE_STATUSES)

\* JavaScript's undefined, as a status or class name.
Undefined == "undefined"

\* Number.NaN, Number.NEGATIVE_INFINITY and Number.POSITIVE_INFINITY among the
\* status codes 0..5: three integers outside that range.
NaN == -1
NEGATIVE_INFINITY == -2
POSITIVE_INFINITY == 99

\* COURSE_STATUS_CODES[name]: the 0-based position in COURSE_STATUSES; a name
\* that is no key gives undefined, which Math.max / Math.min turn into NaN.
COURSE_STATUS_CODES(name) ==
  IF name \in Statuses
    THEN (CHOOSE i \in 1..Len(COURSE_STATUSES) : COURSE_STATUSES[i] = name) - 1
    ELSE NaN

\* COURSE_STATUSES[code]
StatusAt(code) ==
  IF code \in 0..(Len(COURSE_STATUSES) - 1) THEN COURSE_STATUSES[code + 1] ELSE Undefined

-----------------------------------------------------------------------------
(* Elements.                                                               *)

isEdge(elem) == "source" \in DOMAIN elem
isNode(elem) == ~isEdge(elem)

NullLabel == "null"
CONCURRENT_LABEL == "CC"

edgeArrowId(source, target) == source \o " -> " \o target

newEdge(source, target) ==
  [id |-> edgeArrowId(source, target), source |-> source, target |-> target,
   className |-> "over-one-away", label |-> NullLabel]

newCourseNode(id) == [id |-> id, type |-> "course", nodeStatus |-> "over-one-away"]

Nodes(elems) == SelectSeq(elems, isNode)
Edges(elems) == SelectSeq(elems, isEdge)
NodeIds(elems) == { e.id : e \in Range(Nodes(elems)) }

Ids(s) == [i \in 1..Len(s) |-> s[i].id]

-----------------------------------------------------------------------------
(* Graph metadata engine.                                                  *)

\* react-flow-renderer getIncomers: the elements whose id is the source of an
\* edge into the node, in list order, each once.
getIncomers(node, elems) ==
  LET incomersIds == { e.source : e \in { x \in Range(Edges(elems)) : x.target = node.id } }
  IN  SelectSeq(elems, LAMBDA e : e.id \in incomersIds)

\* react-flow-renderer getOutgoers
getOutgoers(node, elems) ==
  LET outgoerIds == { e.target : e \in { x \in Range(Edges(elems)) : x.source = node.id } }
  IN  SelectSeq(elems, LAMBDA e : e.id \in outgoerIds)

getIncomingEdges(targetNode, elems) ==
  SelectSeq(Edges(elems), LAMBDA edge : edge.target = targetNode.id)

getOutgoingEdges(targetNode, elems) ==
  SelectSeq(Edges(elems), LAMBDA edge : edge.source = targetNode.id)

\* Mutant: the connected nodes are added to the list the map already holds.
newDataKept(node, elems) ==
  LET inN == Ids(getIncomers(node, elems))
      inE == Ids(getIncomingEdges(node, elems))
      outE == Ids(getOutgoingEdges(node, elems))
      outN == Ids(getOutgoers(node, elems))
  IN  [depth |-> 0, incomingNodes |-> inN, incomingEdges |-> inE,
       outgoingEdges |-> outE, outgoingNodes |-> outN,
       connectedEdges |-> inE \o outE,
       connectedNodes |-> (IF node.id \in DOMAIN nodeData
                             THEN nodeData[node.id].connectedNodes ELSE <<>>)
                          \o inN \o outN]

\* The metadata record newNodeData builds for one node before depth discovery.
newData(node, elems) ==
  LET inN == Ids(getIncomers(node, elems))
      inE == Ids(getIncomingEdges(node, elems))
      outE == Ids(getOutgoingEdges(node, elems))
      outN == Ids(getOutgoers(node, elems))
  IN  [depth |-> 0, incomingNodes |-> inN, incomingEdges |-> inE,
       outgoingEdges |-> outE, outgoingNodes |-> outN,
       connectedEdges |-> inE \o outE, connectedNodes |-> inN \o outN]

\* initialNodeData before the traversal: Map.set keeps the last node of an id.
initialNodeDataOf(elems) ==
  [id \in NodeIds(elems) |->
     LET ns == Nodes(elems)
         last == CHOOSE i \in 1..Len(ns) :
                   ns[i].id = id /\ \A j \in (i + 1)..Len(ns) : ns[j].id # id
     IN  newData(ns[last], elems)]

\* The roots array: nodes without incoming nodes, in list order.
rootsOf(elems) ==
  Ids(SelectSeq(Nodes(elems), LAMBDA n : Len(newData(n, elems).incomingNodes) = 0))

Max(a, b) == IF a >= b THEN a ELSE b

\* A call chain longer than the number of nodes holds some node twice, so the
\* recursion below it never returns: the engine ends it with a RangeError
\* (Maximum call stack size exceeded).  ok = FALSE reports that.
\* Mutant: the depth is overwritten instead of maximised.
visitDepthOverwrite(oldDepth, startDepth) == startDepth + 1

\* nodeData.get(outgoerId).depth = Math.max(nodeData.get(outgoerId).depth, startDepth + 1)
visitDepth(oldDepth, startDepth) == Max(oldDepth, startDepth + 1)

\* Mutant: the recursive call is made on the start node again.
calleeStart(startNodeId, outgoerId) == startNodeId

\* The node the recursive call of discoverMaxDepths is made on.
callee(startNodeId, outgoerId) == outgoerId

RECURSIVE discoverMaxDepths(_, _, _)
RECURSIVE discoverLoop(_, _, _, _, _)

\* The for loop of discoverMaxDepths over outgoingNodes, from position i.
discoverLoop(startNodeId, outgoers, i, startDepth, res) ==
  IF ~res.ok \/ i > Len(outgoers) THEN res
  ELSE
    LET outgoerId == outgoers[i]
        nd1 == [res.data EXCEPT ![outgoerId].depth = visitDepth(@, startDepth)]
        sub == IF startDepth + 1 > Cardinality(DOMAIN nd1)
                 THEN [ok |-> FALSE, data |-> nd1]
                 ELSE discoverMaxDepths(callee(startNodeId, outgoerId), startDepth + 1,
                                        [ok |-> TRUE, data |-> nd1])
    IN  discoverLoop(startNodeId, outgoers, i + 1, startDepth, sub)

discoverMaxDepths(startNodeId, startDepth, res) ==
  discoverLoop(startNodeId, res.data[startNodeId].outgoingNodes, 1, startDepth, res)

RECURSIVE discoverRoots(_, _)
discoverRoots(rs, res) ==
  IF rs = <<>> THEN res
  ELSE discoverRoots(Tail(rs), discoverMaxDepths(Head(rs), 0, res))

\* newNodeData(elements): [ok, data]; ok = FALSE when the depth discovery
\* overflows the call stack (no Map is returned then).
newNodeData(elems) ==
  discoverRoots(rootsOf(elems), [ok |-> TRUE, data |-> initialNodeDataOf(elems)])

\* Array.prototype.sort with the comparator aVal - bVal: nodes by depth, edges
\* (POSITIVE_INFINITY; Infinity - Infinity = NaN compares as equal) after them;
\* the sort is stable.
RECURSIVE nodesByDepth(_, _, _, _)
nodesByDepth(elems, nd, d, maxD) ==
  IF d > maxD THEN <<>>
  ELSE SelectSeq(elems, LAMBDA e : isNode(e) /\ nd[e.id].depth = d)
         \o nodesByDepth(elems, nd, d + 1, maxD)

sortElementsByDepth(elems, nd) ==
  nodesByDepth(elems, nd, 0, Len(elems)) \o Edges(elems)

\* new Map(elements.map((elem, i) => [elem.id, i])): the last position of an id.
newElemIndexes(elems) ==
  [id \in Range(Ids(elems)) |->
     CHOOSE i \in 1..Len(elems) :
       elems[i].id = id /\ \A j \in (i + 1)..Len(elems) : elems[j].id # id]

-----------------------------------------------------------------------------
(* Status propagation engine.                                              *)

\* Assignments through the indexes; an id that elemIndexes does not hold
\* leaves the list as it is.
SetAt(elems, ix, id, field, value) ==
  IF id \in DOMAIN ix /\ ix[id] \in 1..Len(elems)
    THEN [elems EXCEPT ![ix[id]] = [@ EXCEPT ![field] = value]]
    ELSE elems

RECURSIVE setEdgeClasses(_, _, _, _, _)
setEdgeClasses(edgeIds, i, newStatus, elems, ix) ==
  IF i > Len(edgeIds) THEN elems
  ELSE setEdgeClasses(edgeIds, i + 1, newStatus,
                      SetAt(elems, ix, edgeIds[i], "className", newStatus), ix)

\* Mutant: the class of every edge at the node is rewritten.
setNodeStatusConnected(nodeId, newStatus, elems, nd, ix) ==
  setEdgeClasses(nd[nodeId].connectedEdges, 1, newStatus,
                 SetAt(elems, ix, nodeId, "nodeStatus", newStatus), ix)

setNodeStatus(nodeId, newStatus, elems, nd, ix) ==
  setEdgeClasses(nd[nodeId].outgoingEdges, 1, newStatus,
                 SetAt(elems, ix, nodeId, "nodeStatus", newStatus), ix)

\* Mutant: the concurrent label is ignored.
getEdgeStatusNoCC(edge) == COURSE_STATUS_CODES(edge.className)

getEdgeStatus(edge) ==
  LET edgeStatusCode == COURSE_STATUS_CODES(edge.className)
  IN  IF edgeStatusCode = COURSE_STATUS_CODES("enrolled") /\ edge.label = CONCURRENT_LABEL
        THEN COURSE_STATUS_CODES("completed")
        ELSE edgeStatusCode

\* Mutant: the first argument instead of the greatest.
MathMaxFirst(codes) ==
  IF codes = <<>> THEN NEGATIVE_INFINITY
  ELSE IF Includes(codes, NaN) THEN NaN
  ELSE codes[1]

\* Math.max(...codes): -Infinity without arguments, NaN when one is NaN.
MathMax(codes) ==
  IF codes = <<>> THEN NEGATIVE_INFINITY
  ELSE IF Includes(codes, NaN) THEN NaN
  ELSE CHOOSE m \in Range(codes) : \A c \in Range(codes) : c <= m

\* Math.min(...codes)
MathMin(codes) ==
  IF codes = <<>> THEN POSITIVE_INFINITY
  ELSE IF Includes(codes, NaN) THEN NaN
  ELSE CHOOSE m \in Range(codes) : \A c \in Range(codes) : m <= c

\* The incoming edge objects of a node, read through nodeData and elemIndexes.
incomingEdgesOf(nodeId, elems, nd, ix) ==
  [i \in 1..Len(nd[nodeId].incomingEdges) |-> elems[ix[nd[nodeId].incomingEdges[i]]]]

\* Mutant: code 0 always gives ready (completed and enrolled are not kept).
courseStatusForNoKeep(newStatusCode, currentStatus) ==
  IF newStatusCode = 0 THEN "ready"
  ELSE IF newStatusCode = 1 THEN "under-one-away"
  ELSE IF newStatusCode = 2 THEN "one-away"
  ELSE IF newStatusCode # NaN /\ newStatusCode > 2 THEN "over-one-away"
  ELSE Undefined

\* The if / else-if chain on newStatusCode shared by both updateNodeStatus.
courseStatusFor(newStatusCode, currentStatus) ==
  IF newStatusCode = 0
    THEN (IF currentStatus = "completed" \/ currentStatus = "enrolled"
            THEN currentStatus ELSE "ready")
  ELSE IF newStatusCode = 1 THEN "under-one-away"
  ELSE IF newStatusCode = 2 THEN "one-away"
  ELSE IF newStatusCode # NaN /\ newStatusCode > 2 THEN "over-one-away"
  ELSE Undefined

\* Mutant: the or gate takes the greatest code, like the and gate.
newStatusOfOrAsAnd(nodeId, elems, nd, ix) ==
  LET targetNode == elems[ix[nodeId]]
      incoming == incomingEdgesOf(nodeId, elems, nd, ix)
      codes == [i \in 1..Len(incoming) |-> getEdgeStatus(incoming[i])]
      mx == MathMax(codes)
  IN  IF targetNode.type = "course"
        THEN courseStatusFor(IF mx = NEGATIVE_INFINITY THEN 0 ELSE mx, targetNode.nodeStatus)
        ELSE StatusAt(IF mx = NEGATIVE_INFINITY THEN 0 ELSE mx)

\* The switch on targetNode.type: the new status of the node.
newStatusOf(nodeId, elems, nd, ix) ==
  LET targetNode == elems[ix[nodeId]]
      currentStatus == targetNode.nodeStatus
      incoming == incomingEdgesOf(nodeId, elems, nd, ix)
      codes == [i \in 1..Len(incoming) |-> getEdgeStatus(incoming[i])]
      mx == MathMax(codes)
      mn == MathMin(codes)
  IN  CASE targetNode.type = "course" ->
             courseStatusFor(IF mx = NEGATIVE_INFINITY THEN 0 ELSE mx, currentStatus)
        [] targetNode.type = "and" ->
             StatusAt(IF mx = NEGATIVE_INFINITY THEN 0 ELSE mx)
        [] targetNode.type = "or" ->
             StatusAt(IF mn = POSITIVE_INFINITY THEN 0 ELSE mn)
        [] OTHER -> Undefined

updateNodeStatus(nodeId, elems, nd, ix) ==
  setNodeStatus(nodeId, newStatusOf(nodeId, elems, nd, ix), elems, nd, ix)

RECURSIVE updateAllLoop(_, _, _, _, _, _)
updateAllLoop(elems, i, numNodes, updated, nd, ix) ==
  IF i > numNodes THEN updated
  ELSE updateAllLoop(elems, i + 1, numNodes,
                     updateNodeStatus(elems[i].id, updated, nd, ix), nd, ix)

updateAllNodes(elems, nd, ix) ==
  updateAllLoop(elems, 1, Cardinality(DOMAIN nd), elems, nd, ix)

\* App.jsx has its own updateNodeStatus: every node is handled as a course.
AppUpdateNodeStatus(nodeId, elems, nd, ix) ==
  LET currentStatus == elems[ix[nodeId]].nodeStatus
      incoming == incomingEdgesOf(nodeId, elems, nd, ix)
      codes == [i \in 1..Len(incoming) |-> getEdgeStatus(incoming[i])]
      mx == MathMax(codes)
      newStatus == courseStatusFor(IF mx = NEGATIVE_INFINITY THEN 0 ELSE mx, currentStatus)
  IN  setNodeStatus(nodeId, newStatus, elems, nd, ix)

RECURSIVE AppUpdateAllLoop(_, _, _, _, _, _)
AppUpdateAllLoop(elems, i, numNodes, updated, nd, ix) ==
  IF i > numNodes THEN updated
  ELSE AppUpdateAllLoop(elems, i + 1, numNodes,
                        AppUpdateNodeStatus(elems[i].id, updated, nd, ix), nd, ix)

AppUpdateAllNodes(elems, nd, ix) ==
  AppUpdateAllLoop(elems, 1, Cardinality(DOMAIN nd), elems, nd, ix)

-----------------------------------------------------------------------------
(* A full recompute: metadata, depth sort, indexes, one updateAllNodes     *)
(* pass.  ok = FALSE: newNodeData threw and nothing after it ran.          *)

recalculateWith(newElements, res, updated) ==
  [ok |-> res.ok, elements |-> updated, nodeData |-> res.data,
   elemIndexes |-> newElemIndexes(updated)]

\* Mutant: the list is not sorted by depth before the pass.
recalculateUnsorted(newElements) ==
  LET res == newNodeData(newElements)
  IN  IF ~res.ok THEN recalculateWith(newElements, res, newElements)
      ELSE recalculateWith(newElements, res,
             updateAllNodes(newElements, res.data, newElemIndexes(newElements)))

\* The steps of recalculateElements with the functions of utils.
recalculate(newElements) ==
  LET res == newNodeData(newElements)
      sorted == sortElementsByDepth(newElements, res.data)
  IN  IF ~res.ok THEN recalculateWith(newElements, res, newElements)
      ELSE recalculateWith(newElements, res,
             updateAllNodes(sorted, res.data, newElemIndexes(sorted)))

\* recalculateElements of App.jsx.
recalculateElements(newElements) ==
  LET res == newNodeData(newElements)
      sorted == sortElementsByDepth(newElements, res.data)
  IN  IF ~res.ok THEN recalculateWith(newElements, res, newElements)
      ELSE recalculateWith(newElements, res,
             AppUpdateAllNodes(sorted, res.data, newElemIndexes(sorted)))

\* Reachability over the edges of an element list.
Succ(E, S) == { e[2] : e \in { x \in E : x[1] \in S } }

RECURSIVE Reach(_, _)
Reach(E, S) == LET T == S \cup Succ(E, S) IN IF T = S THEN S ELSE Reach(E, T)

EdgePairs(elems) == { <<e.source, e.target>> : e \in Range(Edges(elems)) }

AcyclicPairs(E) == \A p \in E : p[1] \notin Reach(E, {p[2]})

Acyclic(elems) == AcyclicPairs(EdgePairs(elems))

-----------------------------------------------------------------------------
(* Prerequisite parser.                                                    *)
(*                                                                         *)
(* A prerequisite text is a sequence of lexemes: course ids (the strings   *)
(* COURSE_REGEX matches) and the pieces of text between them.  The regular *)
(* expressions are applied lexeme by lexeme; a parser state is             *)
(* [elements, elementIds, gates], gates counting the conditional nodes     *)
(* made so far (nanoid() gives each a fresh id).                           *)

EITHER == "Either "
OR == " or "
COMMA_SP == ", "
COMMA == ","
SEMI == ";"
AND == " and "
WHICH == " either of which may be taken concurrently"
DOT == "."
INSTRUCTOR == ". Instructor permission"
RECOMMENDED == ". Recommended: one year of high school physics"

TextLexemes ==
  {EITHER, OR, COMMA_SP, COMMA, SEMI, AND, WHICH, DOT, INSTRUCTOR, RECOMMENDED}

\* CRS = (?:[A-Z&]+ )+\d{3}: every lexeme that is not a piece of text.
isCourse(lexeme) == lexeme \notin TextLexemes

\* section.match(COURSE_REGEX): the course ids of a text, in order (null, here
\* the empty sequence, when there is none).
courseMatchesOf(text) == SelectSeq(text, isCourse)

\* prerequisite.split(";")
RECURSIVE split(_, _)
split(text, cur) ==
  IF text = <<>> THEN << cur >>
  ELSE IF Head(text) = SEMI THEN << cur >> \o split(Tail(text), <<>>)
  ELSE split(Tail(text), Append(cur, Head(text)))

At(text, i) == IF i \in 1..Len(text) THEN text[i] ELSE ""
CourseAt(text, i) == i \in 1..Len(text) /\ isCourse(text[i])

\* DOUBLE_EITHER_REGEX at position i: (CRS) or (CRS)
doubleAt(text, i) ==
  CourseAt(text, i) /\ At(text, i + 1) = OR /\ CourseAt(text, i + 2)

\* TRIPLE_EITHER_REGEX at position i: (CRS), (CRS),? or (CRS); k is the
\* position of the third course.
tripleAt(text, i, k) ==
  /\ CourseAt(text, i) /\ At(text, i + 1) = COMMA_SP /\ CourseAt(text, i + 2)
  /\ \/ k = i + 5 /\ At(text, i + 3) = COMMA /\ At(text, i + 4) = OR
     \/ k = i + 4 /\ At(text, i + 3) = OR
  /\ CourseAt(text, k)

\* section.match(DOUBLE_EITHER_REGEX).slice(1): the captures of the leftmost
\* match, <<>> for null.
doubleEitherMatch(text) ==
  IF \E i \in 1..Len(text) : doubleAt(text, i)
    THEN LET i == CHOOSE j \in 1..Len(text) :
                    doubleAt(text, j) /\ \A h \in 1..(j - 1) : ~doubleAt(text, h)
         IN  << text[i], text[i + 2] >>
    ELSE <<>>

tripleEitherMatch(text) ==
  IF \E i \in 1..Len(text), k \in 1..Len(text) : tripleAt(text, i, k)
    THEN LET i == CHOOSE j \in 1..Len(text) :
                    /\ \E k \in 1..Len(text) : tripleAt(text, j, k)
                    /\ \A h \in 1..(j - 1) : \A k \in 1..Len(text) : ~tripleAt(text, h, k)
             k == CHOOSE m \in 1..Len(text) : tripleAt(text, i, m)
         IN  << text[i], text[i + 2], text[k] >>
    ELSE <<>>

\* CONCURRENT_REGEX.test(section):
\* (?:either of )?which may be taken concurrently(?:\. Instructor|\.?$)
concurrentTest(text) ==
  \E i \in 1..Len(text) :
    /\ text[i] = WHICH
    /\ \/ i = Len(text)
       \/ i + 1 = Len(text) /\ text[i + 1] = DOT
       \/ At(text, i + 1) = INSTRUCTOR

\* Mutant: the reverse edge is not looked for.
RECURSIVE addEdgesNoReverse(_, _, _)
addEdgesNoReverse(sources, target, ps) ==
  IF sources = <<>> THEN ps
  ELSE
    LET source == Head(sources)
        edgeId == edgeArrowId(source, target)
    IN  addEdgesNoReverse(Tail(sources), target,
          IF source \in ps.elementIds /\ edgeId \notin ps.elementIds
            THEN [ps EXCEPT !.elements = Append(@, newEdge(source, target)),
                            !.elementIds = @ \cup {edgeId}]
            ELSE ps)

\* Mutant: the source is not required to be a known element.
RECURSIVE addEdgesAnySource(_, _, _)
addEdgesAnySource(sources, target, ps) ==
  IF sources = <<>> THEN ps
  ELSE
    LET source == Head(sources)
        edgeId == edgeArrowId(source, target)
    IN  addEdgesAnySource(Tail(sources), target,
          IF /\ edgeId \notin ps.elementIds
             /\ edgeArrowId(target, source) \notin ps.elementIds
            THEN [ps EXCEPT !.elements = Append(@, newEdge(source, target)),
                            !.elementIds = @ \cup {edgeId}]
            ELSE ps)

RECURSIVE addEdges(_, _, _)
addEdges(sources, target, ps) ==
  IF sources = <<>> THEN ps
  ELSE
    LET source == Head(sources)
        edgeId == edgeArrowId(source, target)
    IN  addEdges(Tail(sources), target,
          IF /\ source \in ps.elementIds
             /\ edgeId \notin ps.elementIds
             /\ edgeArrowId(target, source) \notin ps.elementIds
            THEN [ps EXCEPT !.elements = Append(@, newEdge(source, target)),
                            !.elementIds = @ \cup {edgeId}]
            ELSE ps)

\* newConditionalNode(type): a node with a fresh id and status completed.
newConditionalNode(type, k) ==
  [id |-> (IF type = "or" THEN "OR-" ELSE "AND-") \o ToString(k),
   type |-> type, nodeStatus |-> "completed"]

\* The start of generateInitialElements: one course node per record.
parserStart(records) ==
  [elements |-> [i \in 1..Len(records) |-> newCourseNode(records[i].id)],
   elementIds |-> { records[i].id : i \in 1..Len(records) },
   gates |-> 0]

\* First pass, the sections of one course: a section with one course id adds
\* its edge, a section with more is kept for the second pass.
RECURSIVE firstPassSections(_, _, _)
firstPassSections(sections, courseId, ps) ==
  IF sections = <<>> THEN ps
  ELSE
    LET courseMatches == courseMatchesOf(Head(sections))
    IN  firstPassSections(Tail(sections), courseId,
          IF Len(courseMatches) = 1 THEN addEdges(courseMatches, courseId, ps) ELSE ps)

RECURSIVE firstPass(_, _)
firstPass(records, ps) ==
  IF records = <<>> THEN ps
  ELSE
    LET data == Head(records)
    IN  firstPass(Tail(records),
          IF courseMatchesOf(data.prerequisite) = <<>> THEN ps
          ELSE firstPassSections(split(data.prerequisite, <<>>), data.id, ps))

\* secondPass: per course, in the order of the records, the sections with
\* more than one course id.
secondPassOf(records) ==
  LET problemSections(text) ==
        SelectSeq(split(text, <<>>), LAMBDA sec : Len(courseMatchesOf(sec)) > 1)
      withSections == SelectSeq(records, LAMBDA d : problemSections(d.prerequisite) # <<>>)
  IN  [i \in 1..Len(withSections) |->
         [course |-> withSections[i].id,
          sections |-> problemSections(withSections[i].prerequisite)]]

\* Mutant: a match is accepted whatever the number of course ids, the double
\* pattern first.
acceptedMatchesDoubleFirst(section) ==
  LET double == doubleEitherMatch(section)
  IN  IF double # <<>> THEN double ELSE tripleEitherMatch(section)

\* The captures of the accepted either-match of a section, <<>> when neither
\* pattern matches or not every course id was captured.
acceptedMatches(section) ==
  LET triple == tripleEitherMatch(section)
      matches == IF triple # <<>> THEN triple ELSE doubleEitherMatch(section)
      numCourses == Len(courseMatchesOf(section))
  IN  IF matches # <<>> /\ Len(matches) + 1 = numCourses + 1 THEN matches ELSE <<>>

\* Mutant: the concurrent phrase is not looked for.
concurrentEdgeNever(source, target, section) == newEdge(source, target)

concurrentEdge(source, target, section) ==
  [newEdge(source, target) EXCEPT
     !.label = IF concurrentTest(section) THEN CONCURRENT_LABEL ELSE @]

\* Mutant: only the first alternative is wired to the gate.
gateEdgesFirstOnly(reqs, orNodeId, section) ==
  << concurrentEdge(Head(reqs), orNodeId, section) >>

\* alreadyRequired.length > 1: a new or gate, its edge to the course and one
\* edge per alternative already required; none of them is entered in
\* elementIds.
RECURSIVE gateEdges(_, _, _)
gateEdges(reqs, orNodeId, section) ==
  IF reqs = <<>> THEN <<>>
  ELSE << concurrentEdge(Head(reqs), orNodeId, section) >>
         \o gateEdges(Tail(reqs), orNodeId, section)

\* Mutant: the older parser never labels its edges as concurrent.
RECURSIVE directEdgesUnlabelled(_, _, _)
directEdgesUnlabelled(reqs, course, section) ==
  IF reqs = <<>> THEN <<>>
  ELSE << newEdge(Head(reqs), course) >>
         \o directEdgesUnlabelled(Tail(reqs), course, section)

\* The older parser (no gates): one edge per alternative already required.
RECURSIVE directEdges(_, _, _)
directEdges(reqs, course, section) ==
  IF reqs = <<>> THEN <<>>
  ELSE << concurrentEdge(Head(reqs), course, section) >>
         \o directEdges(Tail(reqs), course, section)

\* Mutant: every captured alternative counts as already required.
alreadyRequiredAll(matches, elementIds) == matches

\* matches.slice(1).filter(m => elementIds.has(m))
alreadyRequiredOf(matches, elementIds) ==
  SelectSeq(matches, LAMBDA m : m \in elementIds)

\* Mutant: ambiguous clauses are wired in either mode.
aggressivelyAlways(ambiguousHandling_) == TRUE

\* ambiguousHandling === "aggressively"
aggressively(ambiguousHandling_) == ambiguousHandling_ = "aggressively"

\* Second pass, one section of one course.
secondPassSection(section, course, ambiguousHandling_, gated, ps) ==
  LET matches == acceptedMatches(section)
      alreadyRequired == alreadyRequiredOf(matches, ps.elementIds)
  IN  IF matches # <<>>
        THEN IF gated /\ Len(alreadyRequired) = 1
               THEN [ps EXCEPT !.elements =
                       Append(@, concurrentEdge(alreadyRequired[1], course, section))]
             ELSE IF gated /\ Len(alreadyRequired) > 1
               THEN LET orNode == newConditionalNode("or", ps.gates + 1)
                    IN  [ps EXCEPT
                           !.elements = @ \o << orNode, newEdge(orNode.id, course) >>
                                          \o gateEdges(alreadyRequired, orNode.id, section),
                           !.gates = @ + 1]
             ELSE IF ~gated /\ Len(alreadyRequired) > 0
               THEN [ps EXCEPT !.elements =
                       @ \o directEdges(alreadyRequired, course, section)]
             ELSE IF aggressively(ambiguousHandling_)
               THEN addEdges(matches, course, ps)
             ELSE ps
      ELSE IF aggressively(ambiguousHandling_)
        THEN addEdges(courseMatchesOf(section), course, ps)
      ELSE ps

RECURSIVE secondPassSections(_, _, _, _, _)
secondPassSections(sections, course, ambiguousHandling_, gated, ps) ==
  IF sections = <<>> THEN ps
  ELSE secondPassSections(Tail(sections), course, ambiguousHandling_, gated,
         secondPassSection(Head(sections), course, ambiguousHandling_, gated, ps))

RECURSIVE secondPassLoop(_, _, _, _)
secondPassLoop(entries, ambiguousHandling_, gated, ps) ==
  IF entries = <<>> THEN ps
  ELSE secondPassLoop(Tail(entries), ambiguousHandling_, gated,
         secondPassSections(Head(entries).sections, Head(entries).course,
                            ambiguousHandling_, gated, ps))

parse(records, ambiguousHandling_, gated) ==
  secondPassLoop(secondPassOf(records), ambiguousHandling_, gated,
                 firstPass(records, parserStart(records))).elements

\* generateInitialElements of the utilities (with or gates).
generateInitialElements(records, ambiguousHandling_) ==
  parse(records, ambiguousHandling_, TRUE)

\* generateInitialElements of parse-courses.js (without gates).
parseCourses(records, ambiguousHandling_) ==
  parse(records, ambiguousHandling_, FALSE)

-----------------------------------------------------------------------------
(* Values of the variables a specification does not use.                   *)

IdleApp == undoStack = <<>> /\ redoStack = <<>> /\ crashed = FALSE /\ steps = 0
IdleDepth == callStack = <<>> /\ roots = <<>> /\ dpc = "idle"
IdleParser == [elementIds |-> {}, gates |-> 0, pass |-> "idle", todo |-> <<>>,
               section |-> <<>>, gated |-> TRUE]
IdleParse == courseData = <<>> /\ ambiguousHandling = "conservative" /\ parser = IdleParser
NoFile == [type |-> "", text |-> [parses |-> FALSE]]
IdleDialog == file = NoFile /\ busy = FALSE /\ errorMsg = "" /\ downloaded = NoFile
IdleLayout == filteredElements = <<>>
IdleHeap == heap = <<>>

InitOp ==
  [name |-> "init", node |-> "", source |-> "", target |-> "", ok |-> TRUE, cyclic |-> FALSE]

OpOn(name, node) == [InitOp EXCEPT !.name = name, !.node = node]

-----------------------------------------------------------------------------
(* SpecStatus: updateNodeStatus applied to one node of a graph             *)
(*   S1 .. Sk -> T -> U                                                    *)
(* where T is a course, an and gate or an or gate with any current status  *)
(* and the k incoming edges carry any class and either label.              *)

MaxIn == 3

Labels == {NullLabel, CONCURRENT_LABEL}
NodeTypes == {"course", "and", "or"}

SourceId(i) == "S" \o ToString(i)

StatusGraph(type, status, ins) ==
  [i \in 1..Len(ins) |->
     [id |-> SourceId(i), type |-> "course", nodeStatus |-> ins[i][1]]]
  \o << [id |-> "T", type |-> type, nodeStatus |-> status],
        [id |-> "U", type |-> "course", nodeStatus |-> "over-one-away"] >>
  \o [i \in 1..Len(ins) |->
        [newEdge(SourceId(i), "T") EXCEPT !.className = ins[i][1], !.label = ins[i][2]]]
  \o << newEdge("T", "U") >>

\* The incoming edges are listed in ascending order of (class, label):
\* every multiset of up to MaxIn edges, once.
PairRank(p) == 2 * COURSE_STATUS_CODES(p[1]) + (IF p[2] = CONCURRENT_LABEL THEN 1 ELSE 0)

Monotone(ins) ==
  \A i \in 1..(Len(ins) - 1) : PairRank(ins[i]) <= PairRank(ins[i + 1])

StatusInit ==
  /\ \E type \in NodeTypes, status \in Statuses, k \in 0..MaxIn :
       \E ins \in { f \in [1..k -> Statuses \X Labels] : Monotone(f) } :
         elements = StatusGraph(type, status, ins)
  /\ nodeData = newNodeData(elements).data
  /\ elemIndexes = newElemIndexes(elements)
  /\ op = InitOp
  /\ pre = elements
  /\ IdleApp /\ IdleDepth /\ IdleDialog /\ IdleLayout /\ IdleHeap /\ IdleParse

\* updateNodeStatus (utils) on one node.
UpdateNodeStatus(n) ==
  /\ op.name = "init"
  /\ elements' = updateNodeStatus(n, elements, nodeData, elemIndexes)
  /\ op' = OpOn("updateNodeStatus", n)
  /\ pre' = elements
  /\ UNCHANGED <<nodeData, elemIndexes, appVars, depthVars, dialogVars, layoutVars, heapVars, parseVars>>

\* updateNodeStatus (App.jsx) on one node.
AppUpdateNodeStatusStep(n) ==
  /\ op.name = "init"
  /\ elements' = AppUpdateNodeStatus(n, elements, nodeData, elemIndexes)
  /\ op' = OpOn("AppUpdateNodeStatus", n)
  /\ pre' = elements
  /\ UNCHANGED <<nodeData, elemIndexes, appVars, depthVars, dialogVars, layoutVars, heapVars, parseVars>>

\* The node recomputed: the first source, the node T or its successor U
\* (the other sources are roots like the first).
StatusNext ==
  \E n \in DOMAIN nodeData \cap {SourceId(1), "T", "U"} :
    \/ UpdateNodeStatus(n)
    \/ AppUpdateNodeStatusStep(n)

SpecStatus == StatusInit /\ [][StatusNext]_vars

-----------------------------------------------------------------------------
(* The statements checked refer to the status order of the data model,     *)
(* written out, and to the edges of the list itself.                       *)

CodeOf ==
  [s \in Statuses |->
     CASE s = "completed" -> 0
       [] s = "enrolled" -> 1
       [] s = "ready" -> 2
       [] s = "under-one-away" -> 3
       [] s = "one-away" -> 4
       [] s = "over-one-away" -> 5]

\* The effective code of an edge, as the data model states it.
Effective(e) ==
  IF e.label = "CC" /\ e.className = "enrolled" THEN 0 ELSE CodeOf[e.className]

NodeOf(elems, id) == CHOOSE e \in Range(elems) : isNode(e) /\ e.id = id
IncomingOf(elems, id) == { e \in Range(elems) : isEdge(e) /\ e.target = id }
OutgoingOf(elems, id) == { e \in Range(elems) : isEdge(e) /\ e.source = id }

\* The last operation recomputed node op.node, of type `type`, by the rule
\* of utils (updateNodeStatus) or, for any type, by the rule of App.jsx.
RecomputedAs(type) ==
  /\ op.name = "updateNodeStatus"
  /\ NodeOf(pre, op.node).type = type

RecomputedAsCourse ==
  \/ RecomputedAs("course")
  \/ op.name = "AppUpdateNodeStatus"

\* m = c: c is the greatest effective code among the edges (0 for none).
MaxIs(edges, c) ==
  /\ \A e \in edges : Effective(e) <= c
  /\ (c = 0 \/ \E e \in edges : Effective(e) = c)

MinIs(edges, c) ==
  /\ \A e \in edges : Effective(e) >= c
  /\ (edges = {} => c = 0)
  /\ (edges # {} => \E e \in edges : Effective(e) = c)

-----------------------------------------------------------------------------
(* C1 .. C4: the per-node recompute rule (SpecStatus).                     *)

OldStatus == NodeOf(pre, op.node).nodeStatus
NewStatus == NodeOf(elements, op.node).nodeStatus
InEdges == IncomingOf(pre, op.node)

\* C1: updateNodeStatus on a course node sets its status from m, the greatest
\* effective code of its incoming edges (0 when there are none): m = 0 keeps
\* completed or enrolled and otherwise gives ready, m = 1 gives under-one-away,
\* m = 2 gives one-away, m > 2 gives over-one-away.
C1_CourseRule ==
  RecomputedAsCourse =>
    /\ (MaxIs(InEdges, 0) /\ OldStatus \in {"completed", "enrolled"}) => NewStatus = OldStatus
    /\ (MaxIs(InEdges, 0) /\ OldStatus \notin {"completed", "enrolled"}) => NewStatus = "ready"
    /\ MaxIs(InEdges, 1) => NewStatus = "under-one-away"
    /\ MaxIs(InEdges, 2) => NewStatus = "one-away"
    /\ (\E c \in 3..5 : MaxIs(InEdges, c)) => NewStatus = "over-one-away"

\* A course without incoming edges that was enrolled has been recomputed.
C1_Witness ==
  /\ RecomputedAs("course")
  /\ InEdges = {}
  /\ OldStatus = "enrolled"
  /\ NewStatus = "enrolled"

\* C2: on an and gate the new status is the one whose code is the greatest
\* effective incoming code, on an or gate the one whose code is the least; a
\* gate without incoming edges becomes completed.
C2_GateRule ==
  /\ RecomputedAs("and") =>
       /\ NewStatus \in Statuses
       /\ MaxIs(InEdges, CodeOf[NewStatus])
  /\ RecomputedAs("or") =>
       /\ NewStatus \in Statuses
       /\ MinIs(InEdges, CodeOf[NewStatus])
  /\ ((RecomputedAs("and") \/ RecomputedAs("or")) /\ InEdges = {}) => NewStatus = "completed"

\* An or gate with incoming edges of different effective codes has been recomputed.
C2_Witness ==
  /\ RecomputedAs("or")
  /\ \E e, f \in InEdges : Effective(e) < Effective(f)
  /\ NewStatus # OldStatus

\* The incoming edges have exactly the effective codes 0, 1 and 2, one each.
Codes012 ==
  /\ Cardinality(InEdges) = 3
  /\ { Effective(e) : e \in InEdges } = {0, 1, 2}

\* C3 as stated: the and gate becomes one-away, the or gate completed.
C3_AsStated ==
  /\ (RecomputedAs("and") /\ Codes012) => NewStatus = "one-away"
  /\ (RecomputedAs("or") /\ Codes012) => NewStatus = "completed"

\* C3, amended: an and gate whose incoming edges have the effective codes 0, 1
\* and 2 becomes ready (the status of code 2); an or gate becomes completed.
C3_Gates012 ==
  /\ (RecomputedAs("and") /\ Codes012) => NewStatus = "ready"
  /\ (RecomputedAs("or") /\ Codes012) => NewStatus = "completed"

C3_Witness ==
  /\ RecomputedAs("and")
  /\ Codes012
  /\ OldStatus = "over-one-away"

\* C4: the effective code of an edge is the code of its class, except 0 for
\* a concurrent edge of class enrolled; a course whose only incoming edge is
\* such an edge is recomputed as if the edge were completed.
C4_EffectiveCode ==
  /\ \A e \in Range(Edges(elements)) :
       e.className \in Statuses => getEdgeStatus(e) = Effective(e)
  /\ \A e \in Range(Edges(elements)) :
       (e.className \in Statuses /\ ~(e.label = "CC" /\ e.className = "enrolled"))
         => getEdgeStatus(e) = CodeOf[e.className]
  /\ (RecomputedAsCourse
        /\ \E e \in InEdges : InEdges = {e} /\ e.label = "CC" /\ e.className = "enrolled")
       => NewStatus = (IF OldStatus \in {"completed", "enrolled"} THEN OldStatus ELSE "ready")

C4_Witness ==
  /\ RecomputedAs("course")
  /\ \E e \in InEdges : InEdges = {e} /\ e.label = "CC" /\ e.className = "enrolled"
  /\ OldStatus = "over-one-away"
  /\ NewStatus = "ready"

-----------------------------------------------------------------------------
(* SpecRecalc: a full recompute of an acyclic graph over the nodes A, B, C *)
(* listed in that order whatever the direction of the edges, C a course or *)
(* a gate, the edge classes fresh (over-one-away) or equal to the status   *)
(* of the source, the first edge concurrent or not.                        *)

MaxEdges == 3

GraphNodes == <<"A", "B", "C">>

PairSeq ==
  << <<"A", "B">>, <<"A", "C">>, <<"B", "C">>, <<"B", "A">>, <<"C", "A">>, <<"C", "B">> >>

InitStatuses == {"completed", "enrolled", "ready", "over-one-away"}

GraphOf(E, st, typeC, fresh, cc) ==
  LET ps == SelectSeq(PairSeq, LAMBDA p : p \in E)
  IN  [i \in 1..Len(GraphNodes) |->
         [id |-> GraphNodes[i],
          type |-> IF GraphNodes[i] = "C" THEN typeC ELSE "course",
          nodeStatus |-> st[GraphNodes[i]]]]
      \o [i \in 1..Len(ps) |->
            [newEdge(ps[i][1], ps[i][2]) EXCEPT
               !.className = IF fresh THEN @ ELSE st[ps[i][1]],
               !.label = IF cc /\ i = 1 THEN CONCURRENT_LABEL ELSE @]]

Dags == { E \in SUBSET Range(PairSeq) : Cardinality(E) <= MaxEdges /\ AcyclicPairs(E) }

RecalcInit ==
  /\ \E E \in Dags, st \in [Range(GraphNodes) -> InitStatuses],
        typeC \in NodeTypes, fresh \in BOOLEAN, cc \in BOOLEAN :
       elements = GraphOf(E, st, typeC, fresh, cc)
  /\ nodeData = newNodeData(elements).data
  /\ elemIndexes = newElemIndexes(elements)
  /\ op = InitOp
  /\ pre = elements
  /\ IdleApp /\ IdleDepth /\ IdleDialog /\ IdleLayout /\ IdleHeap /\ IdleParse

Install(r, name) ==
  /\ elements' = r.elements
  /\ nodeData' = r.nodeData
  /\ elemIndexes' = r.elemIndexes
  /\ op' = OpOn(name, "")
  /\ pre' = elements
  /\ UNCHANGED <<appVars, depthVars, dialogVars, layoutVars, heapVars, parseVars>>

\* The first full recompute, with updateAllNodes of utils.
Recalculate ==
  /\ op.name = "init"
  /\ Install(recalculate(elements), "recalculate")

\* The first full recompute, as recalculateElements of App.jsx does it.
RecalculateElements ==
  /\ op.name = "init"
  /\ \A e \in Range(Nodes(elements)) : e.type = "course"
  /\ Install(recalculateElements(elements), "recalculateElements")

\* updateAllNodes once more on the installed list.
UpdateAllNodesAgain ==
  /\ op.name \in {"recalculate", "recalculateElements"}
  /\ elements' = IF op.name = "recalculate"
                   THEN updateAllNodes(elements, nodeData, elemIndexes)
                   ELSE AppUpdateAllNodes(elements, nodeData, elemIndexes)
  /\ op' = OpOn("updateAllNodes", "")
  /\ pre' = elements
  /\ UNCHANGED <<nodeData, elemIndexes, appVars, depthVars, dialogVars, layoutVars, heapVars, parseVars>>

RecalcNext ==
  \/ Recalculate
  \/ RecalculateElements
  \/ UpdateAllNodesAgain

SpecRecalc == RecalcInit /\ [][RecalcNext]_vars

\* The recompute rule holds of node n in the list elems: its status is what
\* the rule gives for the incoming edges of n and that same status.
RuleHolds(elems, n) ==
  LET node == NodeOf(elems, n)
      ins == IncomingOf(elems, n)
      s == node.nodeStatus
  IN  /\ s \in Statuses
      /\ node.type = "course" =>
           /\ MaxIs(ins, 0) => s \in {"completed", "enrolled", "ready"}
           /\ MaxIs(ins, 1) => s = "under-one-away"
           /\ MaxIs(ins, 2) => s = "one-away"
           /\ (\E c \in 3..5 : MaxIs(ins, c)) => s = "over-one-away"
      /\ node.type = "and" => MaxIs(ins, CodeOf[s])
      /\ node.type = "or" => MinIs(ins, CodeOf[s])

SortedByDepth(elems, nd) ==
  /\ \A i \in 1..Len(elems) : isNode(elems[i]) <=> i <= Cardinality(DOMAIN nd)
  /\ \A i, j \in 1..Cardinality(DOMAIN nd) :
       i < j => nd[elems[i].id].depth <= nd[elems[j].id].depth

\* C5: one updateAllNodes pass over an acyclic graph sorted by depth leaves
\* a fixed point: every node satisfies the recompute rule for its incoming
\* edges, every edge carries the status of its source, and a second pass
\* changes nothing.
C5_OnePassFixedPoint ==
  /\ op.name \in {"recalculate", "recalculateElements"} =>
       /\ SortedByDepth(elements, nodeData)
       /\ \A n \in NodeIds(elements) : RuleHolds(elements, n)
       /\ \A e \in Range(Edges(elements)) :
            e.className = NodeOf(elements, e.source).nodeStatus
  /\ op.name = "updateAllNodes" => elements = pre

\* A second pass ran over a graph of depth two whose list was not in depth
\* order before the recompute.
C5_Witness ==
  /\ op.name = "updateAllNodes"
  /\ \E n \in NodeIds(elements) : nodeData[n].depth = 2
  /\ elements[1].id # "A"

-----------------------------------------------------------------------------
(* SpecDepth: newNodeData run call by call.  callStack holds one frame     *)
(* [node, depth, i] per active call of discoverMaxDepths, i the position   *)
(* of its for loop.  The graphs are all sets of up to MaxDepthEdges edges  *)
(* over four nodes, cycles and self-loops included.  The engine's call     *)
(* stack holds MaxCallDepth frames; one more call ends the run with a      *)
(* RangeError.                                                             *)

MaxDepthEdges == 4
MaxCallDepth == 6

DepthNodes == <<"A", "B", "C", "D">>

AllPairs(names) ==
  [k \in 1..(Len(names) * Len(names)) |->
     <<names[((k - 1) \div Len(names)) + 1], names[((k - 1) % Len(names)) + 1]>>]

DepthGraph(E) ==
  LET ps == SelectSeq(AllPairs(DepthNodes), LAMBDA p : p \in E)
  IN  [i \in 1..Len(DepthNodes) |-> newCourseNode(DepthNodes[i])]
      \o [i \in 1..Len(ps) |-> newEdge(ps[i][1], ps[i][2])]

DepthInit ==
  /\ \E E \in SUBSET Range(AllPairs(DepthNodes)) :
       /\ Cardinality(E) <= MaxDepthEdges
       /\ elements = DepthGraph(E)
  /\ nodeData = initialNodeDataOf(elements)
  /\ elemIndexes = newElemIndexes(elements)
  /\ callStack = <<>>
  /\ roots = <<>>
  /\ dpc = "idle"
  /\ op = InitOp
  /\ pre = elements
  /\ IdleApp /\ IdleParse /\ IdleDialog /\ IdleLayout /\ IdleHeap

DepthFrame == <<elements, elemIndexes, appVars, parseVars, dialogVars, layoutVars, heapVars, op, pre>>

Top == callStack[Len(callStack)]

\* newNodeData up to its second loop: the initial map and the roots.
NewNodeDataStart ==
  /\ dpc = "idle"
  /\ nodeData' = initialNodeDataOf(elements)
  /\ roots' = rootsOf(elements)
  /\ dpc' = "run"
  /\ UNCHANGED <<callStack, DepthFrame>>

\* for (const root of roots) discoverMaxDepths(root, 0, initialNodeData)
CallRoot ==
  /\ dpc = "run" /\ callStack = <<>> /\ roots # <<>>
  /\ callStack' = << [node |-> Head(roots), depth |-> 0, i |-> 1] >>
  /\ roots' = Tail(roots)
  /\ UNCHANGED <<nodeData, dpc, DepthFrame>>

\* One iteration of the for loop: the depth of the outgoer, then the call.
Visit ==
  /\ dpc = "run" /\ callStack # <<>>
  /\ Top.i <= Len(nodeData[Top.node].outgoingNodes)
  /\ Len(callStack) < MaxCallDepth
  /\ LET outgoerId == nodeData[Top.node].outgoingNodes[Top.i]
     IN  /\ nodeData' = [nodeData EXCEPT ![outgoerId].depth = visitDepth(@, Top.depth)]
         /\ callStack' = [callStack EXCEPT ![Len(callStack)].i = @ + 1]
                           \o << [node |-> callee(Top.node, outgoerId),
                                  depth |-> Top.depth + 1, i |-> 1] >>
  /\ UNCHANGED <<roots, dpc, DepthFrame>>

\* The call that does not fit on the stack: RangeError, newNodeData returns nothing.
Overflow ==
  /\ dpc = "run" /\ callStack # <<>>
  /\ Top.i <= Len(nodeData[Top.node].outgoingNodes)
  /\ Len(callStack) >= MaxCallDepth
  /\ dpc' = "overflow"
  /\ callStack' = <<>>
  /\ UNCHANGED <<nodeData, roots, DepthFrame>>

\* The for loop of a call is over: the call returns.
Return ==
  /\ dpc = "run" /\ callStack # <<>>
  /\ Top.i > Len(nodeData[Top.node].outgoingNodes)
  /\ callStack' = SubSeq(callStack, 1, Len(callStack) - 1)
  /\ UNCHANGED <<nodeData, roots, dpc, DepthFrame>>

\* return initialNodeData
NewNodeDataReturn ==
  /\ dpc = "run" /\ callStack = <<>> /\ roots = <<>>
  /\ dpc' = "done"
  /\ UNCHANGED <<nodeData, callStack, roots, DepthFrame>>

DepthNext ==
  \/ NewNodeDataStart
  \/ CallRoot
  \/ Visit
  \/ Overflow
  \/ Return
  \/ NewNodeDataReturn

\* The code runs to completion without suspending: a step that can be taken is taken.
SpecDepth == DepthInit /\ [][DepthNext]_vars /\ WF_vars(DepthNext)

\* The number of edges on the longest path that ends at n, in an acyclic graph.
RECURSIVE LongestPathTo(_, _)
LongestPathTo(E, n) ==
  LET preds == { p[1] : p \in { x \in E : x[2] = n } }
  IN  IF preds = {} THEN 0
      ELSE 1 + (CHOOSE m \in { LongestPathTo(E, q) : q \in preds } :
                  \A k \in { LongestPathTo(E, q) : q \in preds } : k <= m)

\* C7: after newNodeData on an acyclic graph the depth of every node is the
\* length of the longest path from a root to it, so roots have depth 0 and
\* depth(v) >= depth(u) + 1 for every edge u -> v; the map is the one the
\* recursive definition gives.
C7_DepthIsLongestPath ==
  (dpc = "done" /\ Acyclic(elements)) =>
    /\ \A n \in NodeIds(elements) :
         nodeData[n].depth = LongestPathTo(EdgePairs(elements), n)
    /\ \A n \in NodeIds(elements) :
         IncomingOf(elements, n) = {} => nodeData[n].depth = 0
    /\ \A e \in Range(Edges(elements)) :
         nodeData[e.target].depth >= nodeData[e.source].depth + 1
    /\ newNodeData(elements) = [ok |-> TRUE, data |-> nodeData]

\* newNodeData has returned on an acyclic graph in which D is reached over a
\* path of three edges and over a direct edge from the root.
C7_Witness ==
  /\ dpc = "done"
  /\ Acyclic(elements)
  /\ EdgePairs(elements) = { <<"A", "B">>, <<"B", "C">>, <<"C", "D">>, <<"A", "D">> }
  /\ nodeData["D"].depth = 3

\* C8: newNodeData terminates on every acyclic graph.
C8_Terminates == Acyclic(elements) => <>(dpc = "done")

\* newNodeData has returned on an acyclic graph with a diamond.
C8_Witness ==
  /\ dpc = "done"
  /\ Acyclic(elements)
  /\ { <<"A", "B">>, <<"A", "C">>, <<"B", "D">>, <<"C", "D">> } \subseteq EdgePairs(elements)

-----------------------------------------------------------------------------
(* Spec: the edit handlers of App.jsx on a flow of the courses A, B, C.    *)
(* The flow starts as generateNewFlow leaves it for an acyclic graph; up   *)
(* to MaxOps handler invocations follow.                                   *)

MaxOps == 2

MAX_UNDO_NUM == 20

\* react-flow-renderer removeElements: the elements named and every edge at
\* a node named are dropped.
removeElements(elementsToRemove, elems) ==
  LET ids == { e.id : e \in Range(elementsToRemove) }
  IN  SelectSeq(elems, LAMBDA e :
        ~(e.id \in ids \/ (isEdge(e) /\ (e.target \in ids \/ e.source \in ids))))

\* flowInstance.current.toObject().elements: the nodes, then the edges.
toObjectElements(elems) == Nodes(elems) \o Edges(elems)

\* Mutant: a full stack is not shifted.
recordFlowStateNoShift(stack, elems) == stack \o << toObjectElements(elems) >>

\* undoStack after recordFlowState(): the oldest snapshot is dropped from a
\* full stack.  (resetElementStates clears hover fields, which are not modelled.)
recordFlowState(stack, elems) ==
  (IF Len(stack) = MAX_UNDO_NUM THEN Tail(stack) ELSE stack)
    \o << toObjectElements(elems) >>

AppInit ==
  /\ \E E \in Dags :
       LET r == recalculateElements(
                  GraphOf(E, [n \in Range(GraphNodes) |-> "over-one-away"],
                          "course", TRUE, FALSE))
       IN  /\ elements = r.elements
           /\ nodeData = r.nodeData
           /\ elemIndexes = r.elemIndexes
  /\ undoStack = <<>>
  /\ redoStack = <<>>
  /\ crashed = FALSE
  /\ steps = 0
  /\ op = InitOp
  /\ pre = elements
  /\ IdleDepth /\ IdleDialog /\ IdleLayout /\ IdleHeap /\ IdleParse

\* recordFlowState() followed by recalculateElements(newElements).  When
\* newNodeData overflows the call stack the handler ends there: the snapshot
\* is on the undo stack and nothing else has changed.
RecordAndRecalculate(newElements, o) ==
  LET r == recalculateElements(newElements)
  IN  /\ undoStack' = recordFlowState(undoStack, elements)
      /\ redoStack' = <<>>
      /\ IF r.ok
           THEN /\ elements' = r.elements
                /\ nodeData' = r.nodeData
                /\ elemIndexes' = r.elemIndexes
                /\ crashed' = crashed
           ELSE /\ UNCHANGED <<elements, nodeData, elemIndexes>>
                /\ crashed' = TRUE
      /\ op' = [o EXCEPT !.ok = r.ok, !.cyclic = ~Acyclic(newElements)]
      /\ pre' = elements
      /\ steps' = steps + 1
      /\ UNCHANGED <<depthVars, dialogVars, layoutVars, heapVars, parseVars>>

\* A handler that returns without doing anything.
Refused(o) ==
  /\ op' = [o EXCEPT !.ok = FALSE]
  /\ pre' = elements
  /\ steps' = steps + 1
  /\ UNCHANGED <<elements, nodeData, elemIndexes, undoStack, redoStack, crashed,
                 depthVars, dialogVars, layoutVars, heapVars, parseVars>>

EdgeOp(name, source, target) ==
  [InitOp EXCEPT !.name = name, !.source = source, !.target = target]

\* Mutant: the reverse edge is not looked for.
connectionAllowedForward(source, target, ix) ==
  edgeArrowId(source, target) \notin DOMAIN ix

\* The guard of onConnect and of onEdgeUpdate.
connectionAllowed(source, target, ix) ==
  /\ edgeArrowId(source, target) \notin DOMAIN ix
  /\ edgeArrowId(target, source) \notin DOMAIN ix

\* The edge onConnect and onEdgeUpdate build: its class is read from
\* data.status, a field no node has.
connectedEdge(source, target) ==
  [newEdge(source, target) EXCEPT !.className = Undefined]

OnConnect(source, target) ==
  /\ steps < MaxOps
  /\ IF connectionAllowed(source, target, elemIndexes)
       THEN RecordAndRecalculate(elements \o << connectedEdge(source, target) >>,
                                 EdgeOp("onConnect", source, target))
       ELSE Refused(EdgeOp("onConnect", source, target))

\* An end of oldEdge is dragged to another node.
OnEdgeUpdate(oldEdge, newSource, newTarget) ==
  /\ steps < MaxOps
  /\ IF connectionAllowed(newSource, newTarget, elemIndexes)
       THEN RecordAndRecalculate(
              [elements EXCEPT ![elemIndexes[oldEdge.id]] =
                 [connectedEdge(newSource, newTarget) EXCEPT !.label = oldEdge.label]],
              EdgeOp("onEdgeUpdate", newSource, newTarget))
       ELSE Refused(EdgeOp("onEdgeUpdate", newSource, newTarget))

OnElementsRemove(targetElems) ==
  /\ steps < MaxOps
  /\ RecordAndRecalculate(removeElements(targetElems, elements),
                          OpOn("onElementsRemove", targetElems[1].id))

Next ==
  \/ \E source, target \in NodeIds(elements) : OnConnect(source, target)
  \/ \E i \in 1..Len(elements), n \in NodeIds(elements) :
       /\ isEdge(elements[i])
       /\ \/ OnEdgeUpdate(elements[i], n, elements[i].target)
          \/ OnEdgeUpdate(elements[i], elements[i].source, n)
  \/ \E i \in 1..Len(elements) : OnElementsRemove(<< elements[i] >>)

Spec == AppInit /\ [][Next]_vars

\* C6: every onConnect or onEdgeUpdate that would close a directed cycle is
\* refused, so the graph stays acyclic and newNodeData never runs on a
\* cyclic graph.
C6_EditsKeepAcyclic ==
  /\ Acyclic(elements)
  /\ ~op.cyclic
  /\ ~crashed

-----------------------------------------------------------------------------
(* SpecParse: generateInitialElements applied to bounded course lists.     *)
(* The list holds the first n course ids; each of the first MaxOwners has  *)
(* a prerequisite text that names the next listed courses (p, q), the      *)
(* course itself, or courses outside the list, the others have none.       *)

MaxCourses == 3
MaxOwners == 2

CourseIdList == << "A 101", "B 102", "C 103", "D 104", "E 105" >>
OutsideX == "X 999"
OutsideY == "Y 998"

PrerequisiteTexts(o, p, q) ==
  { <<>>,
    << p >>, << q >>, << o >>,
    << EITHER, p, OR, OutsideX >>,
    << p, OR, q >>,
    << OutsideX, OR, OutsideY >>,
    << p, COMMA_SP, q, COMMA, OR, OutsideX >>,
    << p, SEMI, p, OR, OutsideX >>,
    << p, AND, q >>,
    << p, OR, OutsideX, COMMA, WHICH, DOT >>,
    << p, OR, q, COMMA, WHICH, INSTRUCTOR >>,
    << p, OR, OutsideX, COMMA, WHICH, RECOMMENDED >>,
    << p, OR, q, OR, OutsideX >> }

CourseLists(n) ==
  LET next(i) == CourseIdList[(i % n) + 1]
      texts(i) == IF i <= MaxOwners
                    THEN PrerequisiteTexts(CourseIdList[i], next(i), next(i + 1))
                    ELSE { <<>> }
  IN  { [i \in 1..n |-> [id |-> CourseIdList[i], prerequisite |-> t[i]]] :
          t \in { f \in [1..n -> UNION { texts(i) : i \in 1..n }] :
                    \A i \in 1..n : f[i] \in texts(i) } }

ParseInit ==
  /\ \E n \in 2..MaxCourses : courseData \in CourseLists(n)
  /\ ambiguousHandling \in {"conservative", "aggressively"}
  /\ elements = <<>>
  /\ nodeData = <<>>
  /\ elemIndexes = <<>>
  /\ op = InitOp
  /\ pre = <<>>
  /\ parser = IdleParser
  /\ IdleApp /\ IdleDepth /\ IdleDialog /\ IdleLayout /\ IdleHeap

GenerateInitialElements ==
  /\ op.name = "init"
  /\ elements' = generateInitialElements(courseData, ambiguousHandling)
  /\ op' = OpOn("generateInitialElements", "")
  /\ pre' = elements
  /\ UNCHANGED <<nodeData, elemIndexes, appVars, depthVars, dialogVars, layoutVars, heapVars, parseVars>>

ParseCourses ==
  /\ op.name = "init"
  /\ elements' = parseCourses(courseData, ambiguousHandling)
  /\ op' = OpOn("parseCourses", "")
  /\ pre' = elements
  /\ UNCHANGED <<nodeData, elemIndexes, appVars, depthVars, dialogVars, layoutVars, heapVars, parseVars>>

ParseNext == GenerateInitialElements \/ ParseCourses

SpecParse == ParseInit /\ [][ParseNext]_vars

-----------------------------------------------------------------------------
(* SpecClauses: generateInitialElements clause by clause.  Init is the     *)
(* state after lines 243-245 (64-74 in parse-courses.js); each action is   *)
(* one iteration of the inner loop of the first or of the second pass.     *)
(* parser.todo holds the (course, section) pairs still to do in the        *)
(* running pass and parser.section the clause the last step handled.       *)

\* The sections the first pass goes through, in order.
RECURSIVE firstPassTodo(_)
firstPassTodo(records) ==
  IF records = <<>> THEN <<>>
  ELSE
    LET data == Head(records)
        sections == split(data.prerequisite, <<>>)
    IN  (IF courseMatchesOf(data.prerequisite) = <<>> THEN <<>>
         ELSE [k \in 1..Len(sections) |-> [course |-> data.id, section |-> sections[k]]])
        \o firstPassTodo(Tail(records))

\* The sections the second pass goes through, in order.
RECURSIVE secondPassTodo(_)
secondPassTodo(entries) ==
  IF entries = <<>> THEN <<>>
  ELSE [k \in 1..Len(Head(entries).sections) |->
          [course |-> Head(entries).course, section |-> Head(entries).sections[k]]]
       \o secondPassTodo(Tail(entries))

\* The end of a loop: the first pass is followed by the second, the second
\* by the return.
advance(p, records) ==
  LET second == secondPassTodo(secondPassOf(records))
  IN  IF p.pass = "first" /\ p.todo = <<>>
        THEN IF second = <<>> THEN [p EXCEPT !.pass = "done"]
             ELSE [p EXCEPT !.pass = "second", !.todo = second]
      ELSE IF p.pass = "second" /\ p.todo = <<>> THEN [p EXCEPT !.pass = "done"]
      ELSE p

parserState == [elements |-> elements, elementIds |-> parser.elementIds,
                gates |-> parser.gates]

ClausesInit ==
  /\ \E n \in 2..MaxCourses : courseData \in CourseLists(n)
  /\ ambiguousHandling \in {"conservative", "aggressively"}
  /\ elements = parserStart(courseData).elements
  /\ \E gated \in BOOLEAN :
       parser = advance([elementIds |-> parserStart(courseData).elementIds,
                         gates |-> 0, pass |-> "first",
                         todo |-> firstPassTodo(courseData),
                         section |-> <<>>, gated |-> gated], courseData)
  /\ nodeData = <<>>
  /\ elemIndexes = <<>>
  /\ op = InitOp
  /\ pre = <<>>
  /\ IdleApp /\ IdleDepth /\ IdleDialog /\ IdleLayout /\ IdleHeap

ClauseStep(name, r) ==
  /\ elements' = r.elements
  /\ parser' = advance([parser EXCEPT !.elementIds = r.elementIds,
                                      !.gates = r.gates,
                                      !.todo = Tail(@),
                                      !.section = Head(parser.todo).section],
                       courseData)
  /\ op' = OpOn(name, Head(parser.todo).course)
  /\ pre' = elements
  /\ UNCHANGED <<nodeData, elemIndexes, appVars, depthVars, dialogVars, layoutVars, heapVars, courseData, ambiguousHandling>>

FirstPassClause ==
  /\ parser.pass = "first"
  /\ ClauseStep("firstPass",
       firstPassSections(<< Head(parser.todo).section >>, Head(parser.todo).course,
                         parserState))

SecondPassClause ==
  /\ parser.pass = "second" /\ parser.gated
  /\ ClauseStep("secondPass",
       secondPassSection(Head(parser.todo).section, Head(parser.todo).course,
                         ambiguousHandling, TRUE, parserState))

SecondPassClauseOld ==
  /\ parser.pass = "second" /\ ~parser.gated
  /\ ClauseStep("secondPass",
       secondPassSection(Head(parser.todo).section, Head(parser.todo).course,
                         ambiguousHandling, FALSE, parserState))

ClausesNext == FirstPassClause \/ SecondPassClause \/ SecondPassClauseOld

SpecClauses == ClausesInit /\ [][ClausesNext]_vars

\* The clause-by-clause run ends with the list generateInitialElements returns.
ClausesAgree ==
  parser.pass = "done" =>
    elements = parse(courseData, ambiguousHandling, parser.gated)

Generated == op.name \in {"generateInitialElements", "parseCourses"}

EdgePositions == { i \in 1..Len(elements) : isEdge(elements[i]) }

\* C9: in the output of generateInitialElements no two edge elements have
\* the same source and target, and no two edge elements share an id.
C9_OneEdgePerPair ==
  Generated =>
    \A i, j \in EdgePositions :
      i # j => /\ elements[i].id # elements[j].id
               /\ << elements[i].source, elements[i].target >>
                    # << elements[j].source, elements[j].target >>

\* C10: the output of generateInitialElements never holds an edge B -> A
\* together with an edge A -> B.
C10_NoReverseEdge ==
  Generated =>
    \A i, j \in EdgePositions :
      ~(/\ elements[i].source = elements[j].target
        /\ elements[i].target = elements[j].source
        /\ elements[i].source # elements[i].target)

\* C11: the output of generateInitialElements holds no edge whose source
\* equals its target, also when a prerequisite text names its own course.
C11_NoSelfLoop ==
  Generated => \A i \in EdgePositions : elements[i].source # elements[i].target

NamesOutside(records) ==
  \E i \in 1..Len(records) :
    \E k \in 1..Len(records[i].prerequisite) :
      records[i].prerequisite[k] \in {OutsideX, OutsideY}

\* C18: in the output of generateInitialElements the source and the target
\* of every edge are ids of nodes of the same output.
C18_EndpointsAreNodes ==
  Generated =>
    \A i \in EdgePositions :
      /\ elements[i].source \in NodeIds(elements)
      /\ elements[i].target \in NodeIds(elements)

\* An output with a gate and its edges, from records that name courses
\* outside the list.
C18_Witness ==
  /\ Generated
  /\ NamesOutside(courseData)
  /\ \E i \in EdgePositions :
       \E k \in 1..Len(elements) :
         isNode(elements[k]) /\ elements[k].type = "or"
           /\ elements[k].id = elements[i].target

-----------------------------------------------------------------------------
(* Claims about one clause, stated on the steps of SpecClauses.            *)

ClauseRan(name) == op.name = name
Owner == op.node
Clause == parser.section
Tokens == courseMatchesOf(Clause)
Added == SubSeq(elements, Len(pre) + 1, Len(elements))
Listed(m) == \E i \in 1..Len(courseData) : courseData[i].id = m
Present == SelectSeq(Tokens, Listed)
HasEdge(elems, s, t) ==
  \E i \in 1..Len(elems) :
    isEdge(elems[i]) /\ elems[i].source = s /\ elems[i].target = t
IsEdgeFromTo(elem, s, t) == isEdge(elem) /\ elem.source = s /\ elem.target = t
IsOrGate(elem) == isNode(elem) /\ elem.type = "or"

\* An either-clause whose pattern captures every course id of the clause:
\* the triple pattern on three ids, else the double pattern on two.
Accepted(clause) ==
  LET n == Len(courseMatchesOf(clause))
  IN  \/ tripleEitherMatch(clause) # <<>> /\ n = 3
      \/ tripleEitherMatch(clause) = <<>> /\ doubleEitherMatch(clause) # <<>> /\ n = 2

\* C12: for a double-either clause none of whose alternatives is present,
\* under the mode aggressively, there is an edge from every alternative of
\* the clause to the owner course.
C12_AggressiveWiresAll ==
  ( /\ ClauseRan("secondPass")
    /\ ambiguousHandling = "aggressively"
    /\ Len(Tokens) = 2 /\ doubleEitherMatch(Clause) # <<>>
    /\ Present = <<>> )
  => \A k \in 1..Len(Tokens) : HasEdge(elements, Tokens[k], Owner)

\* C13: under the conservative mode a clause with more than one course id
\* adds no element when none of its alternatives is present or when it is
\* not an accepted either-clause.
C13_ConservativeDrops ==
  ( /\ ClauseRan("secondPass")
    /\ ambiguousHandling = "conservative"
    /\ (Present = <<>> \/ ~Accepted(Clause)) )
  => /\ Len(Tokens) > 1
     /\ elements = pre

\* A conservative step on a clause that is no either-clause and whose
\* course ids are all present, and one on an either-clause of absent courses.
C13_Witness ==
  /\ ClauseRan("secondPass")
  /\ ambiguousHandling = "conservative"
  /\ elements = pre
  /\ \/ ~Accepted(Clause) /\ Len(Present) = Len(Tokens) /\ Owner \notin Range(Tokens)
        /\ ~HasEdge(pre, Tokens[1], Owner)
     \/ Accepted(Clause) /\ Present = <<>>

\* C14: a clause with exactly one course id adds exactly one edge from that
\* course to the owner and nothing else when the course is a known node and
\* neither that edge nor its reverse exists; otherwise it adds nothing.
C14_SingleClause ==
  ( ClauseRan("firstPass") /\ Len(Tokens) = 1 )
  => IF /\ Listed(Tokens[1])
        /\ ~HasEdge(pre, Tokens[1], Owner)
        /\ ~HasEdge(pre, Owner, Tokens[1])
       THEN /\ Len(elements) = Len(pre) + 1
            /\ SubSeq(elements, 1, Len(pre)) = pre
            /\ IsEdgeFromTo(Added[1], Tokens[1], Owner)
       ELSE elements = pre

\* A single-course clause that added its edge to a list that holds an edge
\* already.
C14_Witness ==
  /\ ClauseRan("firstPass") /\ Len(Tokens) = 1
  /\ Len(Added) = 1
  /\ \E i \in 1..Len(pre) : isEdge(pre[i])

\* C15: an accepted either-clause with exactly one alternative present adds
\* exactly one edge, from that alternative to the owner, and no gate, in
\* either mode.
C15_OnePresent ==
  ( ClauseRan("secondPass") /\ Accepted(Clause) /\ Len(Present) = 1 )
  => /\ Len(elements) = Len(pre) + 1
     /\ SubSeq(elements, 1, Len(pre)) = pre
     /\ IsEdgeFromTo(Added[1], Present[1], Owner)

\* Such a clause handled under the mode aggressively.
C15_Witness ==
  /\ ClauseRan("secondPass") /\ Accepted(Clause) /\ Len(Present) = 1
  /\ ambiguousHandling = "aggressively"
  /\ Len(Added) = 1

\* C16: an accepted either-clause with k > 1 alternatives present adds one
\* new or gate with status completed, one edge from each present
\* alternative to the gate, one edge from the gate to the owner, and no
\* edge from an alternative to the owner.
C16_Gate ==
  ( /\ ClauseRan("secondPass") /\ parser.gated
    /\ Accepted(Clause) /\ Len(Present) > 1 )
  => /\ Len(Added) = Len(Present) + 2
     /\ SubSeq(elements, 1, Len(pre)) = pre
     /\ IsOrGate(Added[1])
     /\ Added[1].nodeStatus = "completed"
     /\ Added[1].id \notin Range(Ids(pre))
     /\ IsEdgeFromTo(Added[2], Added[1].id, Owner)
     /\ \A k \in 1..Len(Present) :
          IsEdgeFromTo(Added[k + 2], Present[k], Added[1].id)

\* A gate made for two present alternatives.
C16_Witness ==
  /\ ClauseRan("secondPass") /\ parser.gated
  /\ Accepted(Clause) /\ Len(Present) = 2
  /\ Present[1] # Present[2]
  /\ IsOrGate(Added[1])

\* The outcome of an accepted either-clause: nothing the conservative mode
\* would not add when no alternative is present, one edge for one present
\* alternative, a gate fed by the present alternatives for more.
AcceptedOutcome ==
  /\ Len(Present) = 1 => /\ Len(Added) = 1
                         /\ IsEdgeFromTo(Added[1], Present[1], Owner)
  /\ Len(Present) > 1 => /\ Len(Added) = Len(Present) + 2
                         /\ IsOrGate(Added[1])
                         /\ \A k \in 1..Len(Present) :
                              IsEdgeFromTo(Added[k + 2], Present[k], Added[1].id)

\* The outcome of an unparsed clause: no gate; nothing under the
\* conservative mode; under aggressively plain edges to the owner, so that
\* every present course of the clause is linked with the owner.
UnparsedOutcome ==
  /\ \A i \in 1..Len(Added) :
       /\ isEdge(Added[i])
       /\ Added[i].target = Owner
       /\ Added[i].source \in Range(Present)
       /\ Added[i].label = NullLabel
  /\ ambiguousHandling = "conservative" => Added = <<>>
  /\ ambiguousHandling = "aggressively" =>
       \A k \in 1..Len(Present) :
         HasEdge(elements, Present[k], Owner) \/ HasEdge(elements, Owner, Present[k])

C19_ConcurrentFlag ==
  /\ ( ClauseRan("secondPass") /\ Accepted(Clause) /\ Len(Present) > 0
       /\ concurrentTest(Clause) )
     => \A i \in 1..Len(Added) :
          (isEdge(Added[i]) /\ Added[i].source \in Range(Tokens))
            => Added[i].label = CONCURRENT_LABEL
  /\ ( (ClauseRan("firstPass") \/ ClauseRan("secondPass")) /\ ~concurrentTest(Clause) )
     => \A i \in 1..Len(Added) :
          isEdge(Added[i]) => Added[i].label = NullLabel

\* A gate whose two incoming edges are labelled CC.
C19_Witness ==
  /\ ClauseRan("secondPass") /\ parser.gated
  /\ Accepted(Clause) /\ Len(Present) = 2
  /\ concurrentTest(Clause)
  /\ Len(Added) = 4
  /\ Added[3].label = CONCURRENT_LABEL /\ Added[4].label = CONCURRENT_LABEL
  /\ Added[2].label = NullLabel

-----------------------------------------------------------------------------
(* SpecNewFlow: a new flow made from course records.  The dialog parses    *)
(* the records (parse-courses.js) and hands the list to generateNewFlow of *)
(* App.jsx; afterwards single nodes are recomputed.                        *)

NewFlowInit == ParseInit

GenerateNewFlow ==
  /\ op.name = "init"
  /\ LET r == recalculateElements(parseCourses(courseData, ambiguousHandling))
     IN  /\ elements' = IF r.ok THEN r.elements ELSE elements
         /\ nodeData' = IF r.ok THEN r.nodeData ELSE nodeData
         /\ elemIndexes' = IF r.ok THEN r.elemIndexes ELSE elemIndexes
         /\ crashed' = ~r.ok
         /\ undoStack' = recordFlowState(undoStack, elements)
         /\ redoStack' = <<>>
         /\ op' = [OpOn("generateNewFlow", "") EXCEPT !.ok = r.ok]
  /\ pre' = elements
  /\ UNCHANGED <<steps, depthVars, dialogVars, layoutVars, heapVars, parseVars>>

UpdateNodeStatusAfter(n) ==
  /\ op.name = "generateNewFlow" /\ ~crashed
  /\ elements' = AppUpdateNodeStatus(n, elements, nodeData, elemIndexes)
  /\ op' = OpOn("AppUpdateNodeStatus", n)
  /\ pre' = elements
  /\ UNCHANGED <<nodeData, elemIndexes, appVars, depthVars, dialogVars, layoutVars, heapVars, parseVars>>

RECURSIVE setNodeStatuses(_, _, _, _, _)
setNodeStatuses(nodeIds, newStatus, elems, nd, ix) ==
  IF nodeIds = <<>> THEN elems
  ELSE setNodeStatuses(Tail(nodeIds), newStatus,
                       setNodeStatus(Head(nodeIds), newStatus, elems, nd, ix), nd, ix)

\* setSelectionStatuses of the context menu.
setSelectionStatuses(nodeIds, newStatus, elems, nd, ix) ==
  AppUpdateAllNodes(setNodeStatuses(nodeIds, newStatus, elems, nd, ix), nd, ix)

SetSelectionStatusesAfter(n, newStatus) ==
  /\ op.name = "generateNewFlow" /\ ~crashed
  /\ elements' = setSelectionStatuses(<< n >>, newStatus, elements, nodeData, elemIndexes)
  /\ undoStack' = recordFlowState(undoStack, elements)
  /\ redoStack' = <<>>
  /\ op' = OpOn("setSelectionStatuses", n)
  /\ pre' = elements
  /\ UNCHANGED <<nodeData, elemIndexes, crashed, steps, depthVars, dialogVars, layoutVars, heapVars, parseVars>>

NewFlowNext ==
  \/ GenerateNewFlow
  \/ \E n \in DOMAIN nodeData : UpdateNodeStatusAfter(n)
  \/ \E n \in DOMAIN nodeData, newStatus \in {"completed", "ready"} :
       SetSelectionStatusesAfter(n, newStatus)

SpecNewFlow == NewFlowInit /\ [][NewFlowNext]_vars

\* C20: after updateNodeStatus of a node the class of every outgoing edge of
\* the node is the node's new status.
C20_OutgoingEdgesMirror ==
  op.name \in {"updateNodeStatus", "AppUpdateNodeStatus"} =>
    \A e \in OutgoingOf(elements, op.node) :
      e.className = NodeOf(elements, op.node).nodeStatus

-----------------------------------------------------------------------------
(* SpecUndo: the undo and redo stacks.  The flow is A -> B; a status is    *)
(* set from the context menu, a node is dragged, ctrl-z and ctrl-y are     *)
(* pressed.                                                                *)

MaxUndoSteps == 23

UndoInit ==
  /\ LET r == recalculateElements(<< newCourseNode("A"), newCourseNode("B"),
                                     newEdge("A", "B") >>)
     IN  /\ elements = r.elements
         /\ nodeData = r.nodeData
         /\ elemIndexes = r.elemIndexes
  /\ undoStack = <<>>
  /\ redoStack = <<>>
  /\ crashed = FALSE
  /\ steps = 0
  /\ op = InitOp
  /\ pre = elements
  /\ IdleDepth /\ IdleDialog /\ IdleLayout /\ IdleHeap /\ IdleParse

\* setSelectionStatuses of the context menu.
SetSelectionStatuses(nodeIds, newStatus) ==
  /\ steps < MaxUndoSteps
  /\ elements' = setSelectionStatuses(nodeIds, newStatus, elements, nodeData, elemIndexes)
  /\ undoStack' = recordFlowState(undoStack, elements)
  /\ redoStack' = <<>>
  /\ op' = OpOn("setSelectionStatuses", nodeIds[1])
  /\ pre' = elements
  /\ steps' = steps + 1
  /\ UNCHANGED <<nodeData, elemIndexes, crashed, depthVars, dialogVars, layoutVars, heapVars, parseVars>>

\* onNodeDragStart and onNodeDragStop: the list at the start of the drag is
\* recorded (positions are not modelled).
OnNodeDragStop ==
  /\ steps < MaxUndoSteps
  /\ undoStack' = recordFlowState(undoStack, elements)
  /\ redoStack' = <<>>
  /\ op' = OpOn("onNodeDragStop", "")
  /\ pre' = elements
  /\ steps' = steps + 1
  /\ UNCHANGED <<elements, nodeData, elemIndexes, crashed, depthVars, dialogVars, layoutVars, heapVars, parseVars>>

\* undoListener, ctrl-z.
Undo ==
  /\ steps < MaxUndoSteps
  /\ undoStack # <<>>
  /\ LET pastElements == undoStack[Len(undoStack)]
     IN  /\ redoStack' = Append(redoStack, toObjectElements(elements))
         /\ undoStack' = SubSeq(undoStack, 1, Len(undoStack) - 1)
         /\ nodeData' = newNodeData(pastElements).data
         /\ elemIndexes' = newElemIndexes(pastElements)
         /\ elements' = pastElements
  /\ op' = OpOn("undo", "")
  /\ pre' = elements
  /\ steps' = steps + 1
  /\ UNCHANGED <<crashed, depthVars, dialogVars, layoutVars, heapVars, parseVars>>

\* redoListener, ctrl-y.
Redo ==
  /\ steps < MaxUndoSteps
  /\ redoStack # <<>>
  /\ LET futureElements == redoStack[Len(redoStack)]
     IN  /\ undoStack' = Append(undoStack, toObjectElements(elements))
         /\ redoStack' = SubSeq(redoStack, 1, Len(redoStack) - 1)
         /\ nodeData' = newNodeData(futureElements).data
         /\ elemIndexes' = newElemIndexes(futureElements)
         /\ elements' = futureElements
  /\ op' = OpOn("redo", "")
  /\ pre' = elements
  /\ steps' = steps + 1
  /\ UNCHANGED <<crashed, depthVars, dialogVars, layoutVars, heapVars, parseVars>>

UndoNext ==
  \/ SetSelectionStatuses(<< "A" >>, "completed")
  \/ OnNodeDragStop
  \/ Undo
  \/ Redo

SpecUndo == UndoInit /\ [][UndoNext]_vars

\* C29: the undo stack never holds more than 20 snapshots; recording into a
\* full stack drops the oldest snapshot; a redo never makes the stack longer
\* than 20.
C29_UndoStackBounded ==
  /\ [](Len(undoStack) <= 20 /\ Len(undoStack) + Len(redoStack) <= 20)
  /\ [][ ( /\ Len(undoStack) = 20
           /\ steps' = steps + 1
           /\ op'.name \in {"setSelectionStatuses", "onNodeDragStop"} )
         => undoStack' = Tail(undoStack) \o << toObjectElements(elements) >> ]_vars

\* A redo brings the stack back to 20 snapshots after the oldest snapshot,
\* taken when A was ready, has been dropped.
C29_Witness ==
  /\ op.name = "redo"
  /\ Len(undoStack) = 20
  /\ NodeOf(undoStack[1], "A").nodeStatus = "completed"

-----------------------------------------------------------------------------
(* Claims about what the status operations leave alone.                    *)

NodeUpdated == op.name \in {"updateNodeStatus", "AppUpdateNodeStatus"}

\* Element b is element a, up to the status of the node op.node and the
\* class of the edges that start at it.
SameButOwn(a, b) ==
  IF isNode(a)
    THEN /\ isNode(b) /\ b.id = a.id /\ b.type = a.type
         /\ a.id # op.node => b.nodeStatus = a.nodeStatus
    ELSE /\ isEdge(b) /\ b.id = a.id
         /\ b.source = a.source /\ b.target = a.target /\ b.label = a.label
         /\ a.source # op.node => b.className = a.className

\* C21: updateNodeStatus of node n changes only the status of n and the
\* class of the edges that start at n; every other status, class and label
\* and the list of nodes and edges stay as they were.
C21_OnlyOwnStatusAndEdges ==
  NodeUpdated =>
    /\ Len(elements) = Len(pre)
    /\ \A i \in 1..Len(pre) : SameButOwn(pre[i], elements[i])

\* The recompute of T changed the status of T and the class of T -> U while
\* T has incoming edges of another class.
C21_Witness ==
  /\ NodeUpdated /\ op.node = "T"
  /\ NodeOf(elements, "T").nodeStatus # NodeOf(pre, "T").nodeStatus
  /\ \E e \in OutgoingOf(elements, "T") : e.className = NodeOf(elements, "T").nodeStatus
  /\ \E e \in IncomingOf(elements, "T") : e.className # NodeOf(elements, "T").nodeStatus

-----------------------------------------------------------------------------
(* Claims about the state the handlers of App.jsx leave.                   *)

\* C22: after an operation that sets or recomputes statuses (generateNewFlow,
\* setSelectionStatuses, or the full recompute after an edit) the class of
\* every edge is the status of its source node.
C22_EdgesMirrorSources ==
  ( /\ op.name \in {"generateNewFlow", "setSelectionStatuses", "onConnect",
                     "onEdgeUpdate", "onElementsRemove"}
    /\ op.ok ) =>
    \A i \in 1..Len(elements) :
      isEdge(elements[i]) =>
        elements[i].className = NodeOf(elements, elements[i].source).nodeStatus

\* C23: after a full recompute on an acyclic graph every incoming edge of a
\* course node that is completed, enrolled or ready has effective code 0.
C23_ReadyMeansPrerequisitesDone ==
  ( /\ op.name \in {"generateNewFlow", "setSelectionStatuses"} /\ op.ok
    /\ Acyclic(elements) )
  => \A i \in 1..Len(elements) :
       ( /\ isNode(elements[i]) /\ elements[i].type = "course"
         /\ elements[i].nodeStatus \in {"completed", "enrolled", "ready"} )
       => \A e \in IncomingOf(elements, elements[i].id) : Effective(e) = 0

\* C25: after a structural operation (generateNewFlow, onConnect,
\* onEdgeUpdate, onElementsRemove) nodeData lists for every node the edges of
\* the element list that end and start at it, and elemIndexes maps the id of
\* every element to its position.
C25_MetadataMatchesElements ==
  ( /\ op.name \in {"generateNewFlow", "onConnect", "onEdgeUpdate", "onElementsRemove"}
    /\ op.ok ) =>
    /\ \A i \in 1..Len(elements) :
         /\ elements[i].id \in DOMAIN elemIndexes
         /\ elemIndexes[elements[i].id] = i
    /\ \A n \in NodeIds(elements) :
         /\ n \in DOMAIN nodeData
         /\ Range(nodeData[n].incomingEdges) = { e.id : e \in IncomingOf(elements, n) }
         /\ Range(nodeData[n].outgoingEdges) = { e.id : e \in OutgoingOf(elements, n) }

\* C24: an onConnect or onEdgeUpdate whose edge, or the reverse of it, is in
\* the flow already changes nothing: the element list, nodeData,
\* elemIndexes and both stacks stay as they were and nothing is thrown.
C24_RefusalChangesNothing ==
  [][ ( /\ op'.name \in {"onConnect", "onEdgeUpdate"}
        /\ steps' = steps + 1
        /\ \/ HasEdge(elements, op'.source, op'.target)
           \/ HasEdge(elements, op'.target, op'.source) )
      => /\ UNCHANGED <<elements, nodeData, elemIndexes, undoStack, redoStack>>
         /\ crashed' = crashed ]_vars

\* A refusal after an edit that was carried out.
C24_Witness ==
  /\ op.name \in {"onConnect", "onEdgeUpdate"}
  /\ \/ HasEdge(elements, op.source, op.target)
     \/ HasEdge(elements, op.target, op.source)
  /\ ~op.ok /\ ~crashed
  /\ elements = pre
  /\ Len(undoStack) = 1

-----------------------------------------------------------------------------
(* SpecFile: saveFlow and the open-file dialog.                            *)
(* A file is [type, text]; the text either fails JSON.parse or parses to a *)
(* JSON value.  A JSON value is a record tagged by t; an object keeps its  *)
(* keys in insertion order, as Object.keys sees them.                      *)

MaxFileOps == 4

JSON_TYPE == "application/json"

JNull == [t |-> "null"]
JUndefined == [t |-> "undefined"]
JString(s) == [t |-> "string", s |-> s]
JNumber(n) == [t |-> "number", n |-> n]
JBoolean(b) == [t |-> "boolean", b |-> b]
JArray(items) == [t |-> "array", items |-> items]
JObject(keys, vals) == [t |-> "object", keys |-> keys, vals |-> vals]

\* `k in j` and j[k] for an object j.
HasKey(j, k) == j.t = "object" /\ Includes(j.keys, k)
Get(j, k) ==
  IF HasKey(j, k) THEN j.vals[CHOOSE i \in 1..Len(j.keys) : j.keys[i] = k]
  ELSE JUndefined

\* A string-valued field as the element records hold it; null is the label
\* of an edge that is not concurrent.
StringOf(j) ==
  IF j.t = "string" THEN j.s ELSE IF j.t = "null" THEN NullLabel ELSE Undefined

\* Array.prototype.toString of an array of strings.
RECURSIVE toString(_)
toString(strings) ==
  IF strings = <<>> THEN ""
  ELSE IF Len(strings) = 1 THEN strings[1]
  ELSE strings[1] \o "," \o toString(Tail(strings))

\* Object.keys of an object or of an array.
ObjectKeys(j) ==
  IF j.t = "object" THEN j.keys ELSE [i \in 1..Len(j.items) |-> ToString(i - 1)]

\* isNode and isEdge of react-flow-renderer on a parsed object.
isNodeObject(j) == HasKey(j, "id") /\ ~HasKey(j, "source") /\ ~HasKey(j, "target")
isEdgeObject(j) == HasKey(j, "id") /\ HasKey(j, "source") /\ HasKey(j, "target")

\* JSON.stringify of an element after resetElementStates; a property whose
\* value is undefined is left out.
stringifyElement(elem) ==
  LET opt(k, v) == IF v = Undefined THEN <<>> ELSE << <<k, JString(v)>> >>
      kv == IF isNode(elem)
              THEN << <<"id", JString(elem.id)>>, <<"type", JString(elem.type)>>,
                      <<"data",
                        LET d == opt("nodeStatus", elem.nodeStatus)
                                   \o << <<"nodeConnected", JBoolean(FALSE)>> >>
                        IN  JObject([i \in 1..Len(d) |-> d[i][1]],
                                    [i \in 1..Len(d) |-> d[i][2]])>> >>
              ELSE << <<"id", JString(elem.id)>>, <<"source", JString(elem.source)>>,
                      <<"target", JString(elem.target)>> >>
                   \o opt("className", elem.className)
                   \o << <<"label", IF elem.label = NullLabel THEN JNull
                                    ELSE JString(elem.label)>>,
                         <<"animated", JBoolean(FALSE)>>,
                         <<"style", JObject(<<>>, <<>>)>> >>
  IN  JObject([i \in 1..Len(kv) |-> kv[i][1]], [i \in 1..Len(kv) |-> kv[i][2]])

\* The element record of a parsed node or edge object.
elementOf(j) ==
  IF isEdgeObject(j)
    THEN [id |-> StringOf(Get(j, "id")), source |-> StringOf(Get(j, "source")),
          target |-> StringOf(Get(j, "target")),
          className |-> StringOf(Get(j, "className")),
          label |-> IF Get(j, "label").t = "string" THEN Get(j, "label").s ELSE NullLabel]
    ELSE [id |-> StringOf(Get(j, "id")), type |-> StringOf(Get(j, "type")),
          nodeStatus |-> StringOf(Get(Get(j, "data"), "nodeStatus"))]

\* The file saveFlow offers for download.
saveFlow(elems) ==
  LET saved == toObjectElements(elems)
  IN  [type |-> JSON_TYPE,
       text |-> [parses |-> TRUE,
                 value |-> JObject(<<"version", "elements">>,
                                   << JString("Beta"),
                                      JArray([i \in 1..Len(saved) |->
                                                stringifyElement(saved[i])]) >>)]]

SUPPORTED_VERSIONS == <<"Beta", "Beta.1">>
DEPRECATED_VERSIONS == <<>>
CURRENT_VERSION == SUPPORTED_VERSIONS[Len(SUPPORTED_VERSIONS)]

\* Array.prototype.includes with a parsed value: strict equality.
includes(versions, j) == j.t = "string" /\ Includes(versions, j.s)

\* Mutant: the converted node is built without its data.
betaToBeta1NoData(elems) ==
  [i \in 1..Len(elems) |->
     IF isNodeObject(elems[i])
       THEN JObject(<<"id", "type", "position">>,
                    << Get(elems[i], "id"), JString("course"),
                       Get(elems[i], "position") >>)
       ELSE elems[i]]

betaToBeta1(elems) ==
  [i \in 1..Len(elems) |->
     IF isNodeObject(elems[i])
       THEN JObject(<<"id", "type", "position", "data">>,
                    << Get(elems[i], "id"), JString("course"),
                       Get(elems[i], "position"), Get(elems[i], "data") >>)
       ELSE elems[i]]

\* CONVERSION_FUNCS.slice(versionIndex) applied in turn; CONVERSION_FUNCS is
\* [betaToBeta1], versionIndex is 0-based.
convert(elems, versionIndex) ==
  IF versionIndex = 0 THEN betaToBeta1(elems) ELSE elems

\* reader.onload: what the callback does with the text of the file.
\* threw: JSON.parse or Object.keys raised; message: the setErrorMsg argument,
\* "" when openFlow is called; opened: the argument of openFlow.
onload(text) ==
  LET Threw == [threw |-> TRUE, message |-> "", opened |-> <<>>]
      Rejected(m) == [threw |-> FALSE, message |-> m, opened |-> <<>>]
      loadedData == text.value
      loadedVersion == Get(loadedData, "version")
      loadedElems == Get(loadedData, "elements")
      versionIndex == (CHOOSE i \in 1..Len(SUPPORTED_VERSIONS) :
                         SUPPORTED_VERSIONS[i] = loadedVersion.s) - 1
  IN  IF ~text.parses THEN Threw
      ELSE IF loadedData.t \notin {"object", "array", "null"}
        THEN Rejected("Invalid data structure")
      ELSE IF loadedData.t = "null" THEN Threw
      ELSE IF toString(ObjectKeys(loadedData)) # toString(<<"version", "elements">>)
        THEN Rejected("Invalid data structure")
      ELSE IF includes(DEPRECATED_VERSIONS, loadedVersion)
        THEN Rejected("v" \o loadedVersion.s \o " data no longer supported")
      ELSE IF ~includes(SUPPORTED_VERSIONS, loadedVersion)
        THEN Rejected("Invalid data version")
      ELSE IF ~(/\ loadedVersion.t = "string"
                /\ loadedElems.t = "array"
                /\ \A i \in 1..Len(loadedElems.items) :
                     isNodeObject(loadedElems.items[i]) \/ isEdgeObject(loadedElems.items[i]))
        THEN Rejected("Invalid data")
      ELSE LET convertedElems ==
                 IF loadedVersion.s # CURRENT_VERSION
                   THEN convert(loadedElems.items, versionIndex)
                   ELSE loadedElems.items
           IN  [threw |-> FALSE, message |-> "",
                opened |-> [i \in 1..Len(convertedElems) |-> elementOf(convertedElems[i])]]

\* The files dropped on the dialog.
FileFlows ==
  { << newCourseNode("P"), newCourseNode("Q"), newEdge("P", "Q") >>,
    << newCourseNode("Q"), newEdge("P", "Q"), newCourseNode("P") >>,
    << [newCourseNode("P") EXCEPT !.nodeStatus = "completed"] >> }

FileElements ==
  { JArray([i \in 1..Len(f) |-> stringifyElement(f[i])]) : f \in FileFlows }
    \cup { JString("none"),
           JArray(<< JObject(<<"name">>, << JString("P") >>) >>) }

FileVersions == { JString("Beta"), JString("Beta.1"), JString("Alpha"), JNumber(1) }

FileValues ==
  { JNull, JString("flow"), JArray(<<>>), JObject(<<"version,elements">>, << JString("Beta") >>) }
    \cup { JObject(<<"version", "elements">>, <<v, e>>) :
             v \in FileVersions, e \in FileElements }
    \cup { JObject(<<"elements", "version">>, <<e, JString("Beta.1")>>) : e \in FileElements }
    \cup { JObject(<<"version">>, <<v>>) : v \in FileVersions }
    \cup { JObject(<<"version", "elements", "name">>, <<JString("Beta.1"), e, JString("flow")>>) :
             e \in FileElements }

Files ==
  { [type |-> ty, text |-> tx] :
      ty \in {JSON_TYPE, "text/plain"},
      tx \in { [parses |-> FALSE] } \cup { [parses |-> TRUE, value |-> v] : v \in FileValues } }

FileInit ==
  /\ \E typeC \in {"course", "or"}, cc \in BOOLEAN,
        st \in {"completed", "ready"} :
       LET r == recalculateElements(
                  GraphOf({<<"A", "C">>, <<"B", "C">>},
                          [n \in Range(GraphNodes) |-> IF n = "A" THEN st ELSE "ready"],
                          typeC, FALSE, cc))
       IN  /\ elements = r.elements
           /\ nodeData = r.nodeData
           /\ elemIndexes = r.elemIndexes
  /\ undoStack = <<>>
  /\ redoStack = <<>>
  /\ crashed = FALSE
  /\ steps = 0
  /\ op = InitOp
  /\ pre = elements
  /\ IdleDepth /\ IdleDialog /\ IdleLayout /\ IdleHeap /\ IdleParse

FileFrame == <<crashed, depthVars, layoutVars, heapVars, parseVars>>

\* saveFlow.
SaveFlow ==
  /\ steps < MaxFileOps
  /\ file = NoFile
  /\ downloaded' = saveFlow(elements)
  /\ op' = OpOn("saveFlow", "")
  /\ pre' = elements
  /\ steps' = steps + 1
  /\ UNCHANGED <<elements, nodeData, elemIndexes, undoStack, redoStack, file, busy,
                 errorMsg, FileFrame>>

\* openFile up to reader.readAsText: op.node keeps the type of the file.
OpenFile(f) ==
  /\ steps < MaxFileOps
  /\ file = NoFile
  /\ IF f.type # JSON_TYPE
       THEN errorMsg' = "Invalid file type" /\ busy' = FALSE /\ file' = NoFile
       ELSE errorMsg' = errorMsg /\ busy' = TRUE /\ file' = f
  /\ op' = [OpOn("openFile", f.type) EXCEPT !.ok = FALSE]
  /\ pre' = elements
  /\ steps' = steps + 1
  /\ UNCHANGED <<elements, nodeData, elemIndexes, undoStack, redoStack, downloaded, FileFrame>>

\* reader.onload, with openFlow and close when the document is accepted.
ReaderOnLoad ==
  /\ file # NoFile
  /\ \E r \in {onload(file.text)} :
         IF r.threw
           THEN /\ op' = [OpOn("onload", "") EXCEPT !.ok = FALSE]
                /\ UNCHANGED <<elements, nodeData, elemIndexes, undoStack, redoStack,
                               busy, errorMsg>>
         ELSE IF r.message # ""
           THEN /\ errorMsg' = r.message
                /\ busy' = FALSE
                /\ op' = [OpOn("onload", "") EXCEPT !.ok = FALSE]
                /\ UNCHANGED <<elements, nodeData, elemIndexes, undoStack, redoStack>>
         ELSE /\ undoStack' = recordFlowState(undoStack, elements)
              /\ redoStack' = <<>>
              /\ nodeData' = newNodeData(r.opened).data
              /\ elemIndexes' = newElemIndexes(r.opened)
              /\ elements' = r.opened
              /\ busy' = FALSE
              /\ errorMsg' = ""
              /\ op' = OpOn("onload", "")
  /\ file' = NoFile
  /\ pre' = elements
  /\ steps' = steps + 1
  /\ UNCHANGED <<downloaded, FileFrame>>

FileNext ==
  \/ SaveFlow
  \/ \E f \in Files \cup ({downloaded} \ {NoFile}) : OpenFile(f)
  \/ ReaderOnLoad

SpecFile == FileInit /\ [][FileNext]_vars

-----------------------------------------------------------------------------
(* Claims about the open-file dialog and the saved document.               *)

\* The conditions under which a document may be opened.
KeysValid(text) ==
  /\ text.parses
  /\ text.value.t = "object"
  /\ Len(text.value.keys) = 2
  /\ Range(text.value.keys) = {"version", "elements"}

VersionValid(text) ==
  /\ Get(text.value, "version").t = "string"
  /\ Get(text.value, "version").s \in Range(SUPPORTED_VERSIONS) \ Range(DEPRECATED_VERSIONS)

ElementsValid(text) ==
  /\ Get(text.value, "elements").t = "array"
  /\ \A j \in Range(Get(text.value, "elements").items) : isNodeObject(j) \/ isEdgeObject(j)

DocumentValid(text) == KeysValid(text) /\ VersionValid(text) /\ ElementsValid(text)

\* The messages that name a cause present in the document; keys in another
\* order count as a cause of "Invalid data structure".
CauseMessages(text) ==
  IF ~KeysValid(text) THEN {"Invalid data structure"}
  ELSE (IF text.value.keys = <<"version", "elements">> THEN {}
        ELSE {"Invalid data structure"})
       \cup
       (IF VersionValid(text) THEN {}
        ELSE IF Get(text.value, "version").t = "string"
                  /\ Get(text.value, "version").s \in Range(DEPRECATED_VERSIONS)
               THEN {"v" \o Get(text.value, "version").s \o " data no longer supported"}
               ELSE {"Invalid data version"})
       \cup (IF ElementsValid(text) THEN {} ELSE {"Invalid data"})

LiveStateUnchanged == UNCHANGED <<elements, nodeData, elemIndexes, undoStack, redoStack>>

\* C26: openFile calls openFlow only for a file of type JSON whose keys are
\* version and elements, whose version is supported and not deprecated and
\* whose elements are an array of nodes and edges; for every other file it
\* sets the message of the cause, resets busy and leaves the elements, the
\* metadata and the undo stack as they were.
C26_OpenFileValidates ==
  [][ /\ (op'.name = "openFile" /\ steps' = steps + 1 /\ op'.node # JSON_TYPE)
           => /\ errorMsg' = "Invalid file type"
              /\ busy' = FALSE
              /\ file' = NoFile
              /\ LiveStateUnchanged
      /\ (op'.name = "onload" /\ steps' = steps + 1)
           => /\ op'.ok => DocumentValid(file.text)
              /\ ~DocumentValid(file.text)
                   => /\ errorMsg' \in CauseMessages(file.text)
                      /\ busy' = FALSE
                      /\ ~op'.ok
                      /\ LiveStateUnchanged ]_vars

SameGraph(a, b) ==
  /\ NodeIds(a) = NodeIds(b)
  /\ { <<e.id, e.source, e.target>> : e \in Range(Edges(a)) }
       = { <<e.id, e.source, e.target>> : e \in Range(Edges(b)) }
  /\ \A n \in Range(Nodes(a)) : \A m \in Range(Nodes(b)) :
       n.id = m.id => n.nodeStatus = m.nodeStatus

\* C27: loading the document saveFlow produces from the current element
\* list gives an element list with the same node ids, the same edge ids with
\* the same sources and targets, and the same status at every node.
C27_SaveOpenRoundTrip ==
  [][ (op'.name = "onload" /\ steps' = steps + 1 /\ file = saveFlow(elements))
        => op'.ok /\ SameGraph(elements, elements') ]_vars

\* The saved flow held an or gate, and the loaded one holds it as a course.
C27_Witness ==
  /\ op.name = "onload" /\ op.ok
  /\ downloaded = saveFlow(pre)
  /\ NodeIds(elements) = Range(GraphNodes)
  /\ NodeOf(pre, "C").type = "or"
  /\ NodeOf(elements, "C").type = "course"
  /\ Len(undoStack) = 1

-----------------------------------------------------------------------------
(* SpecClick: an alt-click on a node of a flow of course nodes whose       *)
(* statuses are a fixed point of updateNodeStatus.  The flow has the nodes *)
(* W, X, Y, Z and up to MaxClickEdges edges, each from a node to a later   *)
(* one; the list is sorted by depth as recalculateElements leaves it.      *)

MaxClickEdges == 3

ClickNodes == <<"W", "X", "Y", "Z">>

ClickPairs ==
  << <<"W", "X">>, <<"W", "Y">>, <<"W", "Z">>, <<"X", "Y">>, <<"X", "Z">>, <<"Y", "Z">> >>

ClickGraph(E, st, cc) ==
  LET ps == SelectSeq(ClickPairs, LAMBDA p : p \in E)
  IN  [i \in 1..Len(ClickNodes) |->
         [newCourseNode(ClickNodes[i]) EXCEPT !.nodeStatus = st[ClickNodes[i]]]]
      \o [i \in 1..Len(ps) |->
            [newEdge(ps[i][1], ps[i][2]) EXCEPT
               !.className = st[ps[i][1]],
               !.label = IF ps[i] \in cc THEN CONCURRENT_LABEL ELSE @]]

\* Every node keeps its status when updateNodeStatus is applied to it.
FixedPoint(elems, nd, ix) ==
  \A n \in DOMAIN nd : AppUpdateNodeStatus(n, elems, nd, ix) = elems

\* The orders in which the members of a list can be taken.
Orders(s) ==
  { o \in [1..Len(s) -> Range(s)] : \A i, j \in 1..Len(s) : i # j => o[i] # o[j] }

\* [...new Set(s)]: the first occurrence of each member is kept.
RECURSIVE SetOf(_)
SetOf(s) ==
  IF s = <<>> THEN <<>>
  ELSE LET front == SetOf(SubSeq(s, 1, Len(s) - 1))
       IN  IF Includes(front, s[Len(s)]) THEN front ELSE Append(front, s[Len(s)])

RECURSIVE updateNodeStatuses(_, _, _, _)
updateNodeStatuses(ids, elems, nd, ix) ==
  IF ids = <<>> THEN elems
  ELSE updateNodeStatuses(Tail(ids), AppUpdateNodeStatus(Head(ids), elems, nd, ix), nd, ix)

\* Mutant: every node that is not enrolled becomes enrolled.
advancedStatusAny(status) == IF status = "enrolled" THEN "completed" ELSE "enrolled"

\* The status an alt-click gives a node; undefined: the click does nothing.
advancedStatus(status) ==
  IF status = "ready" THEN "enrolled"
  ELSE IF status = "enrolled" THEN "completed"
  ELSE Undefined

firstDiffOf(nodeId, nd) == nd[nodeId].outgoingNodes

secondDiffOf(nodeId, nd) ==
  SetOf(Flat([i \in 1..Len(firstDiffOf(nodeId, nd)) |->
                nd[firstDiffOf(nodeId, nd)[i]].outgoingNodes]))

\* Mutant: the successors of the successors are not recomputed.
onElementClickOneHop(nodeId, firstDiff, secondDiff, elems, nd, ix) ==
  updateNodeStatuses(firstDiff,
    setNodeStatus(nodeId, advancedStatus(elems[ix[nodeId]].nodeStatus), elems, nd, ix),
    nd, ix)

\* newElements of onElementClick, with the two hop lists taken in the orders
\* firstDiff and secondDiff.
onElementClick(nodeId, firstDiff, secondDiff, elems, nd, ix) ==
  updateNodeStatuses(secondDiff,
    updateNodeStatuses(firstDiff,
      setNodeStatus(nodeId, advancedStatus(elems[ix[nodeId]].nodeStatus), elems, nd, ix),
      nd, ix),
    nd, ix)

\* The status of the i-th node in the fixed point where a node whose
\* prerequisites are all done has the status `done` gives it (`done` is
\* "ready" at the nodes where it plays no part).
RECURSIVE fixedStatus(_, _, _, _)
fixedStatus(i, E, cc, done) ==
  LET preds == SelectSeq([j \in 1..(i - 1) |-> j],
                         LAMBDA j : <<ClickNodes[j], ClickNodes[i]>> \in E)
      codes == [k \in 1..Len(preds) |->
                  getEdgeStatus(
                    [className |-> fixedStatus(preds[k], E, cc, done),
                     label |-> IF <<ClickNodes[preds[k]], ClickNodes[i]>> \in cc
                                 THEN CONCURRENT_LABEL ELSE NullLabel])]
      mx == MathMax(codes)
  IN  courseStatusFor(IF mx = NEGATIVE_INFINITY THEN 0 ELSE mx, done[ClickNodes[i]])

ClickInit ==
  /\ \E E \in SUBSET Range(ClickPairs) :
       /\ Cardinality(E) <= MaxClickEdges
       /\ \E done \in [Range(ClickNodes) -> {"completed", "enrolled", "ready"}],
             cc \in { c \in SUBSET E : Cardinality(c) <= 1 } :
            LET st == [n \in Range(ClickNodes) |->
                         fixedStatus(CHOOSE i \in 1..Len(ClickNodes) : ClickNodes[i] = n,
                                     E, cc, done)]
                g == ClickGraph(E, st, cc)
                nd == newNodeData(g).data
                sorted == sortElementsByDepth(g, nd)
            IN  /\ \A n \in Range(ClickNodes) : done[n] = "ready" \/ st[n] = done[n]
                /\ FixedPoint(sorted, nd, newElemIndexes(sorted))
                /\ elements = sorted
                /\ nodeData = nd
                /\ elemIndexes = newElemIndexes(sorted)
  /\ undoStack = <<>>
  /\ redoStack = <<>>
  /\ crashed = FALSE
  /\ steps = 0
  /\ op = InitOp
  /\ pre = elements
  /\ IdleDepth /\ IdleDialog /\ IdleLayout /\ IdleHeap /\ IdleParse

\* onElementClick with the alt key on a node.  The handler takes firstDiff
\* in the order of outgoingNodes and secondDiff in the order of first
\* occurrence; any order of either list is taken here.
OnElementClick(nodeId) ==
  /\ op.name = "init"
  /\ advancedStatus(elements[elemIndexes[nodeId]].nodeStatus) # Undefined
  /\ \E firstDiff \in Orders(firstDiffOf(nodeId, nodeData)),
        secondDiff \in Orders(secondDiffOf(nodeId, nodeData)) :
       elements' = onElementClick(nodeId, firstDiff, secondDiff,
                                  elements, nodeData, elemIndexes)
  /\ undoStack' = recordFlowState(undoStack, elements)
  /\ redoStack' = <<>>
  /\ op' = OpOn("onElementClick", nodeId)
  /\ pre' = elements
  /\ UNCHANGED <<nodeData, elemIndexes, crashed, steps, depthVars, dialogVars,
                 layoutVars, heapVars, parseVars>>

ClickNext == \E nodeId \in Range(ClickNodes) : OnElementClick(nodeId)

SpecClick == ClickInit /\ [][ClickNext]_vars

\* C28: after an alt-click on a node of a fixed-point flow of courses, with
\* the two hop sets taken in any order, every node has the status a full
\* updateAllNodes pass over the depth-sorted list gives after the advance.
C28_TwoHopsSuffice ==
  op.name = "onElementClick" =>
    LET full == AppUpdateAllNodes(
                  setNodeStatus(op.node, advancedStatus(NodeOf(pre, op.node).nodeStatus),
                                pre, nodeData, elemIndexes),
                  nodeData, elemIndexes)
    IN  /\ \A i \in 1..Len(elements) :
             isNode(elements[i]) => elements[i].nodeStatus = full[i].nodeStatus
        /\ FixedPoint(elements, nodeData, elemIndexes)

\* W -> X -> Y -> Z: the click on W changed Y, two hops away, and Z is three
\* hops away.
C28_Witness ==
  /\ op.name = "onElementClick" /\ op.node = "W"
  /\ HasEdge(elements, "W", "X") /\ HasEdge(elements, "X", "Y")
  /\ HasEdge(elements, "Y", "Z")
  /\ NodeOf(elements, "X").nodeStatus # NodeOf(pre, "X").nodeStatus
  /\ NodeOf(elements, "Y").nodeStatus # NodeOf(pre, "Y").nodeStatus

-----------------------------------------------------------------------------
(* SpecLayout: generateNewLayout on a flow of the courses P, Q, S and the  *)
(* gates G, H, up to the call of generateDagreLayout.  Positions are not   *)
(* modelled.                                                               *)

MaxLayoutEdges == 4

LayoutCourses == <<"P", "Q", "S">>
LayoutGates == <<"G", "H">>

LayoutPairs ==
  << <<"P", "G">>, <<"Q", "G">>, <<"P", "H">>, <<"Q", "H">>, <<"G", "H">>,
     <<"G", "S">>, <<"H", "S">>, <<"P", "S">>, <<"Q", "S">> >>

LayoutGraph(gates, type, E) ==
  LET gs == SelectSeq(LayoutGates, LAMBDA g : g \in gates)
      ps == SelectSeq(LayoutPairs, LAMBDA p : p \in E)
  IN  [i \in 1..Len(LayoutCourses) |-> newCourseNode(LayoutCourses[i])]
      \o [i \in 1..Len(gs) |-> [id |-> gs[i], type |-> type, nodeStatus |-> "completed"]]
      \o [i \in 1..Len(ps) |-> newEdge(ps[i][1], ps[i][2])]

RECURSIVE filterLoop(_, _, _)
filterLoop(condNodes, tempElements, tempNodeData) ==
  IF condNodes = <<>> THEN tempElements
  ELSE LET elem == Head(condNodes)
           node == tempNodeData[elem.id]
           pushed == Flat([i \in 1..Len(node.incomingNodes) |->
                       Flat([o \in 1..Len(node.outgoingNodes) |->
                         LET iNode == node.incomingNodes[i]
                             oNode == node.outgoingNodes[o]
                         IN  IF edgeArrowId(iNode, oNode) \notin DOMAIN tempNodeData
                               THEN << newEdge(iNode, oNode) >>
                               ELSE <<>>])])
           removed == removeElements(<< elem >>, tempElements \o pushed)
       IN  filterLoop(Tail(condNodes), removed, newNodeData(removed).data)

filterUnconditionalElements(condNodes, elems, nData) == filterLoop(condNodes, elems, nData)

conditionalNodesOf(elems) == SelectSeq(elems, LAMBDA elem : isNode(elem) /\ elem.type # "course")

\* The argument of generateDagreLayout before its shuffle.
dagreInput(elems, nData) ==
  IF conditionalNodesOf(elems) = <<>> THEN elems
  ELSE filterUnconditionalElements(conditionalNodesOf(elems), elems, nData)

\* sort(() => Math.random() - 0.5) can give any order; the rotations of the
\* list are taken here.
Rotations(s) ==
  { SubSeq(s, k, Len(s)) \o SubSeq(s, 1, k - 1) : k \in 1..Len(s) }

LayoutInit ==
  /\ \E gates \in SUBSET Range(LayoutGates), type \in {"and", "or"},
        E \in SUBSET Range(LayoutPairs) :
       /\ Cardinality(E) <= MaxLayoutEdges
       /\ \A p \in E : {p[1], p[2]} \cap (Range(LayoutGates) \ gates) = {}
       /\ LET r == recalculate(LayoutGraph(gates, type, E))
          IN  /\ elements = r.elements
              /\ nodeData = r.nodeData
              /\ elemIndexes = r.elemIndexes
  /\ op = InitOp
  /\ pre = elements
  /\ IdleApp /\ IdleDepth /\ IdleDialog /\ IdleLayout /\ IdleHeap /\ IdleParse

GenerateNewLayout ==
  /\ op.name = "init"
  /\ filteredElements' \in Rotations(dagreInput(elements, nodeData))
  /\ op' = OpOn("generateNewLayout", "")
  /\ pre' = elements
  /\ UNCHANGED <<elements, nodeData, elemIndexes, appVars, depthVars, dialogVars, heapVars, parseVars>>

LayoutNext == GenerateNewLayout

SpecLayout == LayoutInit /\ [][LayoutNext]_vars

GateIds(elems) == { e.id : e \in Range(conditionalNodesOf(elems)) }

\* The gates a course reaches through gates only.
GatesReached(elems, p) ==
  LET G == GateIds(elems)
      E == EdgePairs(elems)
  IN  Reach({ x \in E : x[1] \in G /\ x[2] \in G },
            { x[2] : x \in { y \in E : y[1] = p /\ y[2] \in G } })

\* No gate node and no edge at a gate is handed to the layout.
GatesLeftOut ==
  /\ \A e \in Range(filteredElements) : isNode(e) => e.type = "course"
  /\ \A e \in Range(filteredElements) :
       isEdge(e) => e.source \notin GateIds(elements) /\ e.target \notin GateIds(elements)

\* A course that reaches a course through gates only has an edge to it.
GatesContracted ==
  \A p \in NodeIds(elements) \ GateIds(elements) :
    \A g \in GatesReached(elements, p) :
      \A s \in NodeIds(elements) \ GateIds(elements) :
        HasEdge(elements, g, s) => HasEdge(filteredElements, p, s)

OneEdgePerPair(elems) ==
  \A i, j \in 1..Len(elems) :
    (i # j /\ isEdge(elems[i]) /\ isEdge(elems[j]))
      => <<elems[i].source, elems[i].target>> # <<elems[j].source, elems[j].target>>

\* C30: the list handed to the layered layout holds no gate and no edge at a
\* gate, holds an edge from each predecessor to each successor of a gate,
\* with chains of gates contracted, and holds at most one edge for an
\* ordered pair of nodes.
C30_LayoutWithoutGates ==
  op.name = "generateNewLayout" =>
    /\ GatesLeftOut
    /\ GatesContracted
    /\ OneEdgePerPair(filteredElements)

-----------------------------------------------------------------------------
(* SpecArrow: edgeArrowId on ids written out as sequences of characters,   *)
(* so that the template literal and the id pattern work on the text.       *)

MaxIdLen == 6

IdLetters == {"A", "&"}
IdDigits == {"1"}

\* The ids of length n that CRS = (?:[A-Z&]+ )+\d{3} matches as a whole:
\* groups of letters, each closed by a space, then three digits.
RECURSIVE LetterGroups(_)
LetterGroups(n) ==
  IF n < 2 THEN {}
  ELSE { w \o << " " >> : w \in [1..(n - 1) -> IdLetters] }
         \cup UNION { { g \o w \o << " " >> : g \in LetterGroups(n - k - 1), w \in [1..k -> IdLetters] }
                      : k \in 1..(n - 3) }

CourseIdsOfLen(n) ==
  IF n < 5 THEN {}
  ELSE { g \o d : g \in LetterGroups(n - 3), d \in [1..3 -> IdDigits] }

CourseIdTexts == UNION { CourseIdsOfLen(n) : n \in 1..MaxIdLen }

\* text.match(/^(?:[A-Z&]+ )+\d{3}$/) for a sequence of characters.
matchesCourseId(text) ==
  /\ Len(text) >= 5
  /\ \A i \in (Len(text) - 2)..Len(text) : text[i] \in IdDigits
  /\ text[Len(text) - 3] = " "
  /\ text[1] \in IdLetters
  /\ \A i \in 1..(Len(text) - 3) :
       /\ text[i] \in IdLetters \cup {" "}
       /\ (text[i] = " " /\ i > 1) => text[i - 1] # " "

\* Mutant: the target is left out of the id.
edgeArrowIdTextSourceOnly(source, target) == source \o << " ", "-", ">", " " >>

\* `${source} -> ${target}` on sequences of characters.
edgeArrowIdText(source, target) == source \o << " ", "-", ">", " " >> \o target

ArrowInit ==
  /\ courseData \in { <<a, b, c, d>> : a \in CourseIdTexts, b \in CourseIdTexts,
                                       c \in CourseIdTexts, d \in CourseIdTexts }
  /\ elements = <<>>
  /\ nodeData = <<>>
  /\ elemIndexes = <<>>
  /\ ambiguousHandling = "conservative"
  /\ parser = IdleParser
  /\ op = InitOp
  /\ pre = elements
  /\ IdleApp /\ IdleDepth /\ IdleDialog /\ IdleLayout /\ IdleHeap

\* edgeArrowId for the pairs (courseData[1], courseData[2]) and
\* (courseData[3], courseData[4]).
EdgeArrowId ==
  /\ op.name = "init"
  /\ elements' = << [id |-> edgeArrowIdText(courseData[1], courseData[2]),
                     source |-> courseData[1], target |-> courseData[2]],
                    [id |-> edgeArrowIdText(courseData[3], courseData[4]),
                     source |-> courseData[3], target |-> courseData[4]] >>
  /\ op' = OpOn("edgeArrowId", "")
  /\ pre' = elements
  /\ UNCHANGED <<nodeData, elemIndexes, appVars, depthVars, dialogVars, layoutVars, heapVars, parseVars>>

ArrowNext == EdgeArrowId

SpecArrow == ArrowInit /\ [][ArrowNext]_vars

\* C31: on ids that match the course id pattern, two calls of edgeArrowId
\* give the same id only for the same source and the same target, the same
\* call gives the same id, and no edge id is a course id.
C31_ArrowIdInjective ==
  op.name = "edgeArrowId" =>
    /\ \A i \in 1..4 : matchesCourseId(courseData[i])
    /\ elements[1].id = elements[2].id
         => (elements[1].source = elements[2].source /\ elements[1].target = elements[2].target)
    /\ (elements[1].source = elements[2].source /\ elements[1].target = elements[2].target)
         => elements[1].id = elements[2].id
    /\ \A i \in 1..2 : ~matchesCourseId(elements[i].id) /\ elements[i].id \notin CourseIdTexts

\* Two pairs with the same source and ids of different lengths.
C31_Witness ==
  /\ op.name = "edgeArrowId"
  /\ elements[1].source = elements[2].source
  /\ Len(elements[1].target) # Len(elements[2].target)
  /\ elements[1].id # elements[2].id

-----------------------------------------------------------------------------
(* SpecMetadata: newNodeData called twice on one element list.  The lists  *)
(* are the graphs of SpecDepth; nodeData starts empty.                     *)

MaxCalls == 2

MetadataInit ==
  /\ \E E \in SUBSET Range(AllPairs(DepthNodes)) :
       /\ Cardinality(E) <= MaxDepthEdges
       /\ elements = DepthGraph(E)
  /\ nodeData = <<>>
  /\ elemIndexes = newElemIndexes(elements)
  /\ op = InitOp
  /\ pre = elements
  /\ IdleApp /\ IdleDepth /\ IdleDialog /\ IdleLayout /\ IdleHeap /\ IdleParse

\* nodeData.current = newNodeData(elements); a RangeError leaves the map
\* that was held.
NewNodeData ==
  /\ steps < MaxCalls
  /\ LET res == newNodeData(elements)
     IN  /\ nodeData' = IF res.ok THEN res.data ELSE nodeData
         /\ crashed' = ~res.ok
         /\ op' = [OpOn("newNodeData", "") EXCEPT !.ok = res.ok]
  /\ steps' = steps + 1
  /\ pre' = elements
  /\ UNCHANGED <<elements, elemIndexes, undoStack, redoStack, depthVars, dialogVars,
                 layoutVars, heapVars, parseVars>>

MetadataNext == NewNodeData

SpecMetadata == MetadataInit /\ [][MetadataNext]_vars

-----------------------------------------------------------------------------
(* SpecEdit: the edits of Spec together with the status changes: the       *)
(* context menu's setSelectionStatuses and toggleEdgeConcurrency, and the  *)
(* alt-click.                                                              *)

\* newElements[i] of toggleEdgeConcurrency.
toggledEdge(targetEdge) ==
  IF targetEdge.label # NullLabel
    THEN [id |-> targetEdge.id, source |-> targetEdge.source, target |-> targetEdge.target,
          className |-> targetEdge.className, label |-> NullLabel]
    ELSE [targetEdge EXCEPT !.label = CONCURRENT_LABEL]

toggleEdgeConcurrency(edgeId, elems, nd, ix) ==
  AppUpdateAllNodes([elems EXCEPT ![ix[edgeId]] = toggledEdge(elems[ix[edgeId]])], nd, ix)

\* A handler that records the flow and sets a new element list; the
\* metadata stays.
RecordAndSet(newElements, o) ==
  /\ steps < MaxOps
  /\ undoStack' = recordFlowState(undoStack, elements)
  /\ redoStack' = <<>>
  /\ elements' = newElements
  /\ op' = o
  /\ pre' = elements
  /\ steps' = steps + 1
  /\ UNCHANGED <<nodeData, elemIndexes, crashed, depthVars, dialogVars, layoutVars, heapVars, parseVars>>

EditSetSelectionStatuses(nodeIds, newStatus) ==
  RecordAndSet(setSelectionStatuses(nodeIds, newStatus, elements, nodeData, elemIndexes),
               OpOn("setSelectionStatuses", nodeIds[1]))

EditToggleEdgeConcurrency(edgeId) ==
  RecordAndSet(toggleEdgeConcurrency(edgeId, elements, nodeData, elemIndexes),
               OpOn("toggleEdgeConcurrency", edgeId))

\* onElementClick with the alt key: nothing happens, and nothing is
\* recorded, unless the node is ready or enrolled.
EditOnElementClick(nodeId) ==
  IF advancedStatus(elements[elemIndexes[nodeId]].nodeStatus) = Undefined
    THEN steps < MaxOps /\ Refused(OpOn("onElementClick", nodeId))
    ELSE RecordAndSet(onElementClick(nodeId, firstDiffOf(nodeId, nodeData),
                                     secondDiffOf(nodeId, nodeData),
                                     elements, nodeData, elemIndexes),
                      OpOn("onElementClick", nodeId))

\* reflowElements: the list is shuffled (the rotations are taken here), laid
\* out and sorted by depth again; the metadata stays.
ReflowElements ==
  /\ steps < MaxOps
  /\ \E shuffled \in Rotations(elements) :
       LET newElements == sortElementsByDepth(shuffled, nodeData)
       IN  /\ elements' = newElements
           /\ elemIndexes' = newElemIndexes(newElements)
  /\ undoStack' = recordFlowState(undoStack, elements)
  /\ redoStack' = <<>>
  /\ op' = OpOn("reflowElements", "")
  /\ pre' = elements
  /\ steps' = steps + 1
  /\ UNCHANGED <<nodeData, crashed, depthVars, dialogVars, layoutVars, heapVars, parseVars>>

EditUndo == steps < MaxOps /\ Undo

EditNext ==
  \/ Next
  \/ ReflowElements
  \/ EditUndo
  \/ \E n \in NodeIds(elements), newStatus \in {"completed", "enrolled", "ready"} :
       EditSetSelectionStatuses(<< n >>, newStatus)
  \/ \E i \in 1..Len(elements) :
       isEdge(elements[i]) /\ EditToggleEdgeConcurrency(elements[i].id)
  \/ \E n \in NodeIds(elements) : EditOnElementClick(n)

SpecEdit == AppInit /\ [][EditNext]_vars

\* C33: after any sequence of edits every node status and every edge class
\* is one of the six status names.
C33_StatusesAreNames ==
  \A i \in 1..Len(elements) :
    IF isNode(elements[i]) THEN elements[i].nodeStatus \in Statuses
    ELSE elements[i].className \in Statuses

-----------------------------------------------------------------------------
(* Claims about the order of the installed element list.                   *)

\* The first nodeData.size entries are the nodes, by depth; the edges follow.
NodesFirstByDepth(elems, nd) ==
  LET numNodes == Cardinality(DOMAIN nd)
  IN  /\ numNodes <= Len(elems)
      /\ \A i \in 1..Len(elems) : isNode(elems[i]) <=> i <= numNodes
      /\ \A i, j \in 1..numNodes :
           (i < j /\ isNode(elems[i]) /\ isNode(elems[j]))
             => nd[elems[i].id].depth <= nd[elems[j].id].depth

Installs ==
  op.ok /\ op.name \in {"generateNewFlow", "onConnect", "onEdgeUpdate", "onElementsRemove",
                        "reflowElements", "onload", "undo", "redo"}

\* C34: after every operation that installs an element list, the first
\* nodeData.size entries of the list are the nodes in non-decreasing depth
\* order and the edges come after them.
C34_InstalledListSorted == Installs => NodesFirstByDepth(elements, nodeData)

-----------------------------------------------------------------------------
(* Claims about the alt-click.                                             *)

\* C35: an alt-click takes a ready node to enrolled and an enrolled node to
\* completed; on any other node it changes nothing and records nothing; no
\* other node becomes enrolled or completed by it.
C35_AltClickAdvances ==
  [][ (op'.name = "onElementClick" /\ steps' = steps + 1)
        => LET old == NodeOf(elements, op'.node).nodeStatus
           IN  IF old \notin {"ready", "enrolled"}
                 THEN UNCHANGED <<elements, nodeData, elemIndexes, undoStack, redoStack>>
                 ELSE /\ NodeOf(elements', op'.node).nodeStatus
                           = (IF old = "ready" THEN "enrolled" ELSE "completed")
                      /\ Len(elements') = Len(elements)
                      /\ \A i \in 1..Len(elements) :
                           (isNode(elements'[i]) /\ elements'[i].id # op'.node
                              /\ elements'[i].nodeStatus \in {"enrolled", "completed"})
                             => elements'[i].nodeStatus = elements[i].nodeStatus ]_vars

\* An enrolled node with a successor was clicked and is completed.
C35_Witness ==
  /\ op.name = "onElementClick" /\ op.ok
  /\ NodeOf(pre, op.node).nodeStatus = "enrolled"
  /\ NodeOf(elements, op.node).nodeStatus = "completed"
  /\ nodeData[op.node].outgoingNodes # <<>>
  /\ Len(undoStack) = 2

-----------------------------------------------------------------------------
(* Adding a course to the flow (addCourseNode with autoconnect).           *)
(*                                                                         *)
(* A course node carries its prerequisite text (data.prerequisite), a      *)
(* sequence of lexemes.  courseData holds the arguments of the last call.  *)

MaxAdds == 3

AddIds == {"A", "B", "C"}

\* Prerequisite texts: none, one course, two courses joined by " and ".
AddTexts ==
  {<<>>} \cup { <<x>> : x \in AddIds } \cup { <<x, AND, y>> : x \in AddIds, y \in AddIds }

newNode(id, prerequisite) ==
  [id |-> id, type |-> "course", nodeStatus |-> "over-one-away",
   prerequisite |-> prerequisite]

\* postreq.data.prerequisite.includes(targetId)
prerequisiteIncludes(prerequisite, targetId) ==
  \E i \in 1..Len(prerequisite) : prerequisite[i] = targetId

\* The edges autoconnect pushes for the courses the target's text names.
targetPrereqsOf(targetNode, ix) ==
  SelectSeq(courseMatchesOf(targetNode.prerequisite),
            LAMBDA elemId : /\ elemId \in DOMAIN ix
                            /\ edgeArrowId(elemId, targetNode.id) \notin DOMAIN ix)

\* The nodes among the first nodeData.size elements whose text names the
\* target.
targetPostreqsOf(newElements, targetNode, nd, ix) ==
  SelectSeq(SubSeq(newElements, 1, Cardinality(DOMAIN nd)),
            LAMBDA postreq :
              /\ prerequisiteIncludes(postreq.prerequisite, targetNode.id)
              /\ edgeArrowId(targetNode.id, postreq.id) \notin DOMAIN ix)

autoconnect(newElements, targetNode, nd, ix) ==
  LET targetPrereqs == targetPrereqsOf(targetNode, ix)
      targetPostreqs == targetPostreqsOf(newElements, targetNode, nd, ix)
  IN  newElements
        \o [i \in 1..Len(targetPrereqs) |-> newEdge(targetPrereqs[i], targetNode.id)]
        \o [i \in 1..Len(targetPostreqs) |-> newEdge(targetNode.id, targetPostreqs[i].id)]
        \o (IF targetNode.id \notin DOMAIN ix THEN << targetNode >> ELSE <<>>)

addedElements(newNode_, connectToExisting, elems, nd, ix) ==
  IF connectToExisting THEN autoconnect(elems, newNode_, nd, ix)
  ELSE elems \o << newNode_ >>

AddInit ==
  /\ LET r == recalculateElements(<<>>)
     IN  /\ elements = r.elements
         /\ nodeData = r.nodeData
         /\ elemIndexes = r.elemIndexes
  /\ undoStack = <<>>
  /\ redoStack = <<>>
  /\ crashed = FALSE
  /\ steps = 0
  /\ op = InitOp
  /\ pre = elements
  /\ IdleDepth /\ IdleDialog /\ IdleLayout /\ IdleHeap /\ IdleParse

\* addCourseNode(newNode, connectToExisting, newCoursePosition) for a course
\* that is not in the flow.
AddCourseNode ==
  /\ steps < MaxAdds
  /\ ~crashed
  /\ \E id \in AddIds \ DOMAIN nodeData, prerequisite \in AddTexts,
        connectToExisting \in BOOLEAN :
       LET newNode_ == newNode(id, prerequisite)
           newElems == addedElements(newNode_, connectToExisting,
                                     elements, nodeData, elemIndexes)
           r == recalculateElements(newElems)
       IN  /\ undoStack' = recordFlowState(undoStack, elements)
           /\ redoStack' = <<>>
           /\ IF r.ok
                THEN /\ elements' = r.elements
                     /\ nodeData' = r.nodeData
                     /\ elemIndexes' = r.elemIndexes
                     /\ crashed' = crashed
                ELSE /\ UNCHANGED <<elements, nodeData, elemIndexes>>
                     /\ crashed' = TRUE
           /\ op' = [OpOn("addCourseNode", id) EXCEPT
                       !.ok = r.ok, !.cyclic = ~Acyclic(newElems)]
           /\ courseData' = << [newNode |-> newNode_,
                                connectToExisting |-> connectToExisting] >>
  /\ pre' = elements
  /\ steps' = steps + 1
  /\ UNCHANGED <<ambiguousHandling, parser, depthVars, dialogVars, layoutVars, heapVars>>

AddNext == AddCourseNode

SpecAdd == AddInit /\ [][AddNext]_vars

OneEdgePerOrderedPair(elems) ==
  \A i, j \in 1..Len(elems) :
    (i # j /\ isEdge(elems[i]) /\ isEdge(elems[j]))
      => ~(elems[i].source = elems[j].source /\ elems[i].target = elems[j].target)

NoEdgeBothWays(elems, id) ==
  \A x \in NodeIds(elems) :
    ~(<<x, id>> \in EdgePairs(elems) /\ <<id, x>> \in EdgePairs(elems))

\* C36: addCourseNode with connectToExisting gives newNodeData a list with at
\* most one edge per ordered pair, without both X -> T and T -> X, and
\* acyclic when the flow was acyclic.
C36_AutoconnectKeepsAcyclic ==
  [][ (op'.name = "addCourseNode" /\ steps' = steps + 1
         /\ courseData'[1].connectToExisting)
        => LET newElems == autoconnect(elements, courseData'[1].newNode,
                                       nodeData, elemIndexes)
           IN  /\ OneEdgePerOrderedPair(newElems)
               /\ NoEdgeBothWays(newElems, op'.node)
               /\ (Acyclic(elements) => Acyclic(newElems)) ]_vars

-----------------------------------------------------------------------------
(* Undo and redo with the data objects of the nodes on a heap.             *)
(*                                                                         *)
(* A node of a list is [id, type, data], data being the address of its     *)
(* data object; heap[address] is that object's nodeStatus.  setNodeStatus  *)
(* writes data.nodeStatus in place; an edge is replaced by a new object.   *)
(* toObject().elements copies the node objects, not their data objects;    *)
(* resetElementStates gives each of the first nodeData.size elements a new *)
(* data object.                                                            *)

MaxHeapOps == 4

Deref(list, h) ==
  [i \in 1..Len(list) |->
     IF isNode(list[i])
       THEN [id |-> list[i].id, type |-> list[i].type, nodeStatus |-> h[list[i].data]]
       ELSE list[i]]

\* The objects of a list just made (JSON.parse): one new data object per node.
Allocated(list, h) ==
  [elements |-> [i \in 1..Len(list) |->
                   IF isNode(list[i])
                     THEN [id |-> list[i].id, type |-> list[i].type, data |-> Len(h) + i]
                     ELSE list[i]],
   heap |-> h \o [i \in 1..Len(list) |->
                    IF isNode(list[i]) THEN list[i].nodeStatus ELSE Undefined]]

\* resetElementStates(newElements): elements 0 .. nodeData.size - 1 get a copy
\* of their data object.
resetElementStates(newElements, numNodes, h) ==
  [elements |-> [i \in 1..Len(newElements) |->
                   IF i <= numNodes /\ isNode(newElements[i])
                     THEN [newElements[i] EXCEPT !.data = Len(h) + i]
                     ELSE newElements[i]],
   heap |-> h \o [i \in 1..numNodes |->
                    IF i <= Len(newElements) /\ isNode(newElements[i])
                      THEN h[newElements[i].data] ELSE Undefined]]

\* resetElementStates(flowInstance.current.toObject().elements)
snapshotOf(elems, nd, h) ==
  resetElementStates(toObjectElements(elems), Cardinality(DOMAIN nd), h)

pushSnapshot(stack, snapshot) ==
  (IF Len(stack) = MAX_UNDO_NUM THEN Tail(stack) ELSE stack) \o << snapshot >>

\* The heap after the statuses of a value list were written into the data
\* objects of the live nodes.
writtenBack(elems, values, h) ==
  [a \in 1..Len(h) |->
     IF \E i \in 1..Len(elems) : isNode(elems[i]) /\ elems[i].data = a
       THEN values[CHOOSE i \in 1..Len(elems) : isNode(elems[i]) /\ elems[i].data = a].nodeStatus
       ELSE h[a]]

\* The flows of the files opened: A -> B, and a file with two nodes A.
HeapFlows ==
  { recalculateElements(<< newCourseNode("A"), newCourseNode("B"),
                           newEdge("A", "B") >>).elements,
    << [newCourseNode("A") EXCEPT !.nodeStatus = "ready"],
       [newCourseNode("A") EXCEPT !.nodeStatus = "ready"],
       [newCourseNode("B") EXCEPT !.nodeStatus = "one-away"],
       [newEdge("A", "B") EXCEPT !.className = "ready"] >> }

HeapInit ==
  /\ elements = <<>>
  /\ nodeData = newNodeData(<<>>).data
  /\ elemIndexes = newElemIndexes(<<>>)
  /\ heap = <<>>
  /\ undoStack = <<>>
  /\ redoStack = <<>>
  /\ crashed = FALSE
  /\ steps = 0
  /\ op = InitOp
  /\ pre = <<>>
  /\ IdleDepth /\ IdleDialog /\ IdleLayout /\ IdleParse

HeapFrame == <<crashed, depthVars, dialogVars, layoutVars, parseVars>>

\* openFlow(openedElements)
HeapOpenFlow(openedElements) ==
  /\ steps < MaxHeapOps
  /\ LET snapshot == snapshotOf(elements, nodeData, heap)
         opened == Allocated(openedElements, snapshot.heap)
     IN  /\ undoStack' = pushSnapshot(undoStack, snapshot.elements)
         /\ redoStack' = <<>>
         /\ nodeData' = newNodeData(openedElements).data
         /\ elemIndexes' = newElemIndexes(openedElements)
         /\ elements' = opened.elements
         /\ heap' = opened.heap
  /\ op' = OpOn("openFlow", "")
  /\ pre' = Deref(elements, heap)
  /\ steps' = steps + 1
  /\ UNCHANGED HeapFrame

\* setSelectionStatuses([nodeId], newStatus)
HeapSetSelectionStatuses(nodeId, newStatus) ==
  /\ steps < MaxHeapOps
  /\ LET snapshot == snapshotOf(elements, nodeData, heap)
         values == setSelectionStatuses(<< nodeId >>, newStatus,
                                        Deref(elements, snapshot.heap),
                                        nodeData, elemIndexes)
     IN  /\ undoStack' = pushSnapshot(undoStack, snapshot.elements)
         /\ redoStack' = <<>>
         /\ elements' = [i \in 1..Len(elements) |->
                           IF isNode(elements[i]) THEN elements[i] ELSE values[i]]
         /\ heap' = writtenBack(elements, values, snapshot.heap)
  /\ op' = OpOn("setSelectionStatuses", nodeId)
  /\ pre' = Deref(elements, heap)
  /\ steps' = steps + 1
  /\ UNCHANGED <<nodeData, elemIndexes, HeapFrame>>

\* undoListener, ctrl-z.
HeapUndo ==
  /\ steps < MaxHeapOps
  /\ undoStack # <<>>
  /\ LET snapshot == snapshotOf(elements, nodeData, heap)
         pastElements == undoStack[Len(undoStack)]
     IN  /\ redoStack' = Append(redoStack, snapshot.elements)
         /\ undoStack' = SubSeq(undoStack, 1, Len(undoStack) - 1)
         /\ nodeData' = newNodeData(Deref(pastElements, heap)).data
         /\ elemIndexes' = newElemIndexes(pastElements)
         /\ elements' = pastElements
         /\ heap' = snapshot.heap
  /\ op' = OpOn("undo", "")
  /\ pre' = Deref(elements, heap)
  /\ steps' = steps + 1
  /\ UNCHANGED HeapFrame

\* redoListener, ctrl-y.
HeapRedo ==
  /\ steps < MaxHeapOps
  /\ redoStack # <<>>
  /\ LET snapshot == snapshotOf(elements, nodeData, heap)
         futureElements == redoStack[Len(redoStack)]
     IN  /\ undoStack' = Append(undoStack, snapshot.elements)
         /\ redoStack' = SubSeq(redoStack, 1, Len(redoStack) - 1)
         /\ nodeData' = newNodeData(Deref(futureElements, heap)).data
         /\ elemIndexes' = newElemIndexes(futureElements)
         /\ elements' = futureElements
         /\ heap' = snapshot.heap
  /\ op' = OpOn("redo", "")
  /\ pre' = Deref(elements, heap)
  /\ steps' = steps + 1
  /\ UNCHANGED HeapFrame

HeapNext ==
  \/ \E openedElements \in HeapFlows : HeapOpenFlow(openedElements)
  \/ \E nodeId \in DOMAIN nodeData, newStatus \in {"completed", "enrolled"} :
       HeapSetSelectionStatuses(nodeId, newStatus)
  \/ HeapUndo
  \/ HeapRedo

SpecHeap == HeapInit /\ [][HeapNext]_vars

\* The same nodes with the same statuses and the same edges.
SameFlow(a, b) ==
  /\ Range(Nodes(a)) = Range(Nodes(b))
  /\ Range(Edges(a)) = Range(Edges(b))
  /\ Len(a) = Len(b)

Recorded == {"openFlow", "setSelectionStatuses"}

\* C37: an undo right after a recorded operation restores the list that held
\* before it; a redo right after an undo restores the list that held before
\* the undo; no step changes what a snapshot on either stack holds, and the
\* snapshot an operation records holds the list it started from; a recorded
\* operation empties the redo stack.
C37_UndoRestores ==
  /\ [][ (op.name \in Recorded /\ op'.name = "undo")
           => SameFlow(Deref(elements', heap'), pre) ]_vars
  /\ [][ (op.name = "undo" /\ op'.name = "redo")
           => SameFlow(Deref(elements', heap'), pre) ]_vars
  /\ [][ /\ \A k \in 1..Len(undoStack) :
              Deref(undoStack[k], heap') = Deref(undoStack[k], heap)
         /\ \A k \in 1..Len(redoStack) :
              Deref(redoStack[k], heap') = Deref(redoStack[k], heap)
         /\ op'.name \in Recorded
              => Deref(undoStack'[Len(undoStack')], heap') = toObjectElements(pre') ]_vars
  /\ [][ op'.name \in Recorded => redoStack' = <<>> ]_vars

-----------------------------------------------------------------------------
(* Termination of an openFile attempt.                                     *)

\* The FileReader delivers its load event, and the timer of close() fires:
\* a pending reader.onload eventually runs.
SpecFileFair == SpecFile /\ WF_vars(ReaderOnLoad)

\* C38: every openFile attempt ends with busy false.
C38_OpenFileEnds == busy ~> ~busy

-----------------------------------------------------------------------------
(* The custom course form (CustomCourseForm.tsx).                          *)
(*                                                                         *)
(* courseData holds customCourseData: the id, the prerequisite text and    *)
(* the name (credits, description and offered are handled as the name is). *)
(* busy is the busy state of the dialog that owns the form.                *)

FormIds == {"", " ", "A", "B", "C"}

FormTexts == {<<>>, <<"A">>, <<"B">>, <<"C">>, <<"A", AND, "C">>}

FormNames == {"", "Custom"}

\* String.prototype.trim on the ids of FormIds.
trim(id) == IF id = " " THEN "" ELSE id

EmptyForm == [id |-> "", name |-> "", prerequisite |-> <<>>]

\* Mutant: the button is disabled by a blank id or a busy form only.
addDisabledNoLookup(customCourseData, nd, busy_) ==
  trim(customCourseData.id) = "" \/ busy_

\* The disabled attribute of the add button.
addDisabled(customCourseData, nd, busy_) ==
  \/ trim(customCourseData.id) = ""
  \/ customCourseData.id \in DOMAIN nd
  \/ busy_

FormInit ==
  /\ LET r == recalculateElements(<<>>)
     IN  /\ elements = r.elements
         /\ nodeData = r.nodeData
         /\ elemIndexes = r.elemIndexes
  /\ courseData = EmptyForm
  /\ ambiguousHandling = "conservative"
  /\ parser = IdleParser
  /\ undoStack = <<>>
  /\ redoStack = <<>>
  /\ crashed = FALSE
  /\ steps = 0
  /\ op = InitOp
  /\ pre = elements
  /\ IdleDepth /\ IdleDialog /\ IdleLayout /\ IdleHeap

FormFrame == <<ambiguousHandling, parser, file, errorMsg, downloaded,
               depthVars, layoutVars, heapVars>>

\* onChangeFn(key): the inputs are disabled while the form is busy.
OnChange ==
  /\ ~busy
  /\ \E id \in FormIds, name \in FormNames, prerequisite \in FormTexts :
       /\ \/ courseData' = [courseData EXCEPT !.id = id]
          \/ courseData' = [courseData EXCEPT !.name = name]
          \/ courseData' = [courseData EXCEPT !.prerequisite = prerequisite]
       /\ courseData' # courseData
  /\ op' = OpOn("onChange", "")
  /\ pre' = elements
  /\ UNCHANGED <<elements, nodeData, elemIndexes, appVars, busy, FormFrame>>

\* addCustomCourse: setBusy(true), addNewNode (addCourseNode with the
\* connect option of the dialog), resetCustomCourseData, setBusy(false).  A
\* RangeError of newNodeData ends the handler after setBusy(true).
AddCustomCourse ==
  /\ ~addDisabled(courseData, nodeData, busy)
  /\ \E connectToExisting \in BOOLEAN :
       LET newNode_ == newNode(courseData.id, courseData.prerequisite)
           newElems == addedElements(newNode_, connectToExisting,
                                     elements, nodeData, elemIndexes)
           r == recalculateElements(newElems)
       IN  /\ undoStack' = recordFlowState(undoStack, elements)
           /\ redoStack' = <<>>
           /\ IF r.ok
                THEN /\ elements' = r.elements
                     /\ nodeData' = r.nodeData
                     /\ elemIndexes' = r.elemIndexes
                     /\ crashed' = crashed
                     /\ courseData' = EmptyForm
                     /\ busy' = FALSE
                ELSE /\ UNCHANGED <<elements, nodeData, elemIndexes, courseData>>
                     /\ crashed' = TRUE
                     /\ busy' = TRUE
           /\ op' = [OpOn("addCustomCourse", courseData.id) EXCEPT
                       !.ok = r.ok, !.cyclic = ~Acyclic(newElems)]
  /\ pre' = elements
  /\ steps' = steps + 1
  /\ UNCHANGED FormFrame

FormNext == OnChange \/ AddCustomCourse

SpecForm == FormInit /\ [][FormNext]_vars

DistinctNodeIds(elems) ==
  \A i, j \in 1..Len(elems) :
    (i # j /\ isNode(elems[i]) /\ isNode(elems[j])) => elems[i].id # elems[j].id

\* C39: the add action runs only with an id that is not blank and not a key
\* of nodeData, on a form that is not busy; no two nodes have the same id;
\* after the action busy is false and the fields are empty.
C39_CustomCourseForm ==
  /\ [][ op'.name = "addCustomCourse"
           => /\ trim(courseData.id) # ""
              /\ courseData.id \notin DOMAIN nodeData
              /\ ~busy ]_vars
  /\ [] DistinctNodeIds(elements)
  /\ [][ op'.name = "addCustomCourse"
           => busy' = FALSE /\ courseData' = EmptyForm ]_vars

-----------------------------------------------------------------------------
(* The two implementations of generateInitialElements.                     *)

\* The alternatives of an accepted either-clause that are courses of the
\* input (elementIds.has(m): an edge id is never a course id).
presentAlternatives(section, records) ==
  alreadyRequiredOf(acceptedMatches(section), { records[i].id : i \in 1..Len(records) })

\* The clauses the second pass handles.
AmbiguousClauses(records) ==
  UNION { Range(e.sections) : e \in Range(secondPassOf(records)) }

AtMostOnePresent(records) ==
  \A section \in AmbiguousClauses(records) :
    Len(presentAlternatives(section, records)) <= 1

\* C40: on an input in which every ambiguous clause has at most one
\* alternative among the courses, the parser with or gates and the parser
\* with direct edges return the same list; where the lists differ some
\* clause has two or more.
C40_ParsersAgree ==
  LET gated == generateInitialElements(courseData, ambiguousHandling)
      direct == parseCourses(courseData, ambiguousHandling)
  IN  /\ (op.name = "generateInitialElements" /\ AtMostOnePresent(courseData))
           => elements = direct
      /\ (op.name = "parseCourses" /\ AtMostOnePresent(courseData))
           => elements = gated
      /\ (Generated /\ gated # direct) => ~AtMostOnePresent(courseData)

\* The older parser ran on an input with a clause that has exactly one
\* alternative among the courses, a concurrent one, and wired it.
C40_Witness ==
  /\ op.name = "parseCourses"
  /\ AtMostOnePresent(courseData)
  /\ \E section \in AmbiguousClauses(courseData) :
       /\ Len(presentAlternatives(section, courseData)) = 1
       /\ concurrentTest(section)
  /\ \E e \in Range(Edges(elements)) : e.label = CONCURRENT_LABEL

====
